---- MODULE Spec2Model ----
(***************************************************************************)
(* Traffic manager: the ignition debounce state machine                    *)
(* (ignition_subscriber/subscriber.py, "Ignition Subscriber"/subscriber.py)*)
(* the alert pipeline (discord_bot/discord_notify.py), the bot's "Check    *)
(* All Routes" button (discord_bot/traffic_helper.py), and the classifier, *)
(* the baseline, the threshold lookup and the batch run of                 *)
(* traffic_utils.py.                                                       *)
(*                                                                         *)
(* Time is a discrete clock in seconds.  Straight-line code of the MQTT    *)
(* callback and of the monitor loop takes no time; time passes only while  *)
(* the callback thread is idle or blocked in the pipeline call and the     *)
(* monitor thread is in time.sleep().  The two threads interleave freely   *)
(* at the level of single reads and writes of the shared attributes.       *)
(***************************************************************************)
EXTENDS Integers, Sequences, FiniteSets, TLC

\* ------------------------------------------------------------------ bounds
MaxTime == 13
MaxMsgs == 2
InboxCap == 1
MaxRuns == 2
MaxSilences == 2
MaxBotRuns == 2
MaxBatches == 2
MaxHist == 2
MaxSteps == 2
MaxEdits == 2
MaxLateTicks == 4
MaxDispatches == 4
MaxTopups == 2
MaxUsage == 2
MaxFailedRuns == 6

\* ------------------------------------------------------ program constants
InitialTimeout == 10
FrequencyUpdateInterval == 60
MinTimeout == 5
TimestampsMaxLen == 100
MonitorPoll == 2
LegacyPoll == 1
Epoch == 1
HistoryKeep == 20

None == -1

VARIABLES
    variant,                \* "monitor": class IgnitionMonitor; "script": the standalone script
    now,                    \* time.time()
    ignition_state,
    last_msg_time,
    timeout,                \* a rational <<numerator, denominator>>
    message_timestamps,
    last_frequency_update,
    inbox,                  \* messages received by the network loop, on_message not yet called
    sent,                   \* messages published so far
    cb_pc, cb_msg,          \* the MQTT loop thread: position in on_message, the message in hand
    pipeline,               \* "idle" | "running": process_all_routes_for_discord/post_traffic_alerts
    mon_pc, mon_elapsed, mon_wake,   \* the monitor thread: position, time_since_last, end of sleep
    trips,                  \* "trip started" events fired
    on_transitions,         \* times ignition_state went False -> True
    off_transitions,        \* times ignition_state went True -> False
    last_on_arrival,        \* arrival time of the latest ignition-true message
    gap_exceeded,           \* some gap between ignition-true messages reached the timeout
    quiet_since,            \* when the latest message arrived or on_message last returned
    poll_overdue,           \* the current/last poll began with state ON, nothing in flight, silence > timeout
    \* --- the route store and one run of post_traffic_alerts_async at a time
    routes_db,              \* route id -> [last_state, last_normal_time, historical_times]
    gotify_configured,      \* GOTIFY_URL and GOTIFY_TOKEN are set
    al_pc,                  \* position in post_traffic_alerts_async
    al_run,                 \* runs started so far
    al_routes,              \* routes = get_routes(), the rows still to process
    al_traffic,             \* traffic, the result of check_route_traffic for the current route
    al_prev,                \* prev_state
    route_data,
    discord_alert_needed,
    alerted,                \* this run posted the Discord alert
    gotify_sent,            \* this run sent the Gotify notification
    prev_db,                \* route id -> last_state stored when the run began
    result,                 \* route id -> what check_route_traffic did for it in this run
    appended,               \* route id -> every history entry ever appended, in append order
    failed_before,          \* route id -> its check failed or returned nothing in the run before
    \* --- the bot's "Check All Routes" button (CheckAllRoutesButton.callback)
    bot_pc,                 \* position in the callback
    bot_run,                \* button presses so far
    bot_routes,             \* the (route, task) pairs still to await
    bot_traffic,            \* traffic_result
    bot_results,            \* results
    \* --- process_all_routes (traffic_utils.py), the batch check of route_manager.py
    pa_pc,                  \* position in process_all_routes
    pa_run,                 \* calls so far
    pa_routes,              \* routes still to classify
    pa_results,             \* results
    pa_outcome,             \* route id -> what check_route_traffic did for it in this call
    pa_updated,             \* routes update_route_time was called for in this call
    \* --- one classification: calculate_baseline, then check_route_traffic
    cls_pc,                 \* position in the classification
    historical_data,        \* the route's stored history, the input of calculate_baseline
    config,                 \* the "thresholds" row of the config table
    leg,                    \* fastest["legs"][0] of the API response; durations in seconds, distance in metres
    baseline,               \* a rational <<numerator, denominator>>, or NoBaseline
    total_normal, total_live, total_delay,
    effective_normal,       \* a rational
    thresholds,             \* factor_total, factor_step, delay_total, delay_step
    is_heavy,
    heavy_segments,
    steps_left,             \* the steps of the leg the loop has not visited yet
    cls_state,              \* the verdict's "state"
    api,                    \* API_KEY and what the directions API answers
    cls_outcome,            \* how check_route_traffic ended: a verdict, None or an exception
    \* --- the threshold table's operations (get, set, reset, edit)
    th_result,              \* what the latest get_thresholds returned
    th_last,                \* the latest operation and its argument
    th_before,              \* the operation before it
    th_edits,               \* edits submitted so far
    \* --- process shutdown
    force_shutdown,             \* main._force_shutdown
    force_permanent_shutdown,   \* traffic_helper._force_permanent_shutdown
    shutting_down,              \* traffic_helper._shutting_down
    \* --- notification dispatch
    nt_dispatcher,          \* the dispatcher that made the latest request
    nt_status,              \* the HTTP status it received
    nt_log,                 \* what it logged: "success" or "failure"
    nt_raised,              \* an exception reached the dispatcher's caller
    nt_successes,           \* requests logged as sent
    nt_failures,            \* requests logged as failed
    \* --- the balance tracker
    claude_balance,         \* the rows of table claude_balance
    claude_topups,          \* the rows of table claude_topups
    claude_usage,           \* the rows of table claude_usage
    bal_initialized,        \* what the latest initialize() returned ("none" before a call)
    balance_info,           \* what the latest get_current_balance returned: <<row>> or <<>>
    bal_status,             \* what the latest get_balance_status returned
    bal_asked,              \* get_balance_status has returned since the table last changed
    can_make,               \* what can_make_request returned in the latest operation that
                            \* asked, "none" once the table changed or a summary did not ask
    summary,                \* the summary the latest generate_claude_summary returned
    api_called,             \* the latest generate_claude_summary posted to the Claude API
    \* --- the runners of main.py and run_discord_bot
    im_pc,                  \* start_ignition_monitor: position
    restart_count,          \* start_ignition_monitor: restart_count
    im_starts,              \* times IgnitionMonitor was started
    inf_pc,                 \* run_discord_bot_infinite: position
    consecutive_failures,   \* run_discord_bot_infinite: consecutive_failures
    failed_runs,            \* runs of the bot that raised, one after the other
    wait,                   \* seconds of the sleep run_discord_bot_infinite chose last
    rb_pc,                  \* run_discord_bot: position ("idle" outside a call)
    bot_alive,              \* a bot instance exists and is not closed
    started_after_shutdown, \* a bot instance was created with the permanent flag set
    \* --- adding a route from the bot (async_add_route)
    route_names,            \* the names of the rows of table routes (name TEXT UNIQUE)
    map_files,              \* the route names a map image exists for in MAPS_DIR
    ar_pc,                  \* position in with_error_recovery / register_route_and_generate_map
    ar_name,                \* the name the call is adding
    ar_attempt,             \* attempt of with_error_recovery
    ar_outcome,             \* how the latest async_add_route ended: "ok", "failed", "none"
    ar_existed,             \* a route of that name was stored when the call began
    ar_calls,               \* calls of async_add_route so far
    \* --- update_route_time as a transaction: SELECT, then UPDATE and commit
    historical              \* caller -> <<the history its SELECT returned>>, <<>> outside a call

ign_vars == <<variant, now, ignition_state, last_msg_time, timeout, message_timestamps,
              last_frequency_update, inbox, sent, cb_pc, cb_msg, pipeline,
              mon_pc, mon_elapsed, mon_wake, trips, on_transitions, off_transitions,
              last_on_arrival, gap_exceeded, quiet_since, poll_overdue>>

al_vars == <<routes_db, gotify_configured, al_pc, al_run, al_routes, al_traffic, al_prev,
             route_data, discord_alert_needed, alerted, gotify_sent, prev_db, result,
             appended, failed_before>>

bot_vars == <<bot_pc, bot_run, bot_routes, bot_traffic, bot_results>>

pa_vars == <<pa_pc, pa_run, pa_routes, pa_results, pa_outcome, pa_updated>>

cls_vars == <<cls_pc, historical_data, config, leg, baseline, total_normal, total_live,
              total_delay, effective_normal, thresholds, is_heavy, heavy_segments,
              steps_left, cls_state, api, cls_outcome>>

\* the classification's variables other than the config table
cls_rest == <<cls_pc, historical_data, leg, baseline, total_normal, total_live,
              total_delay, effective_normal, thresholds, is_heavy, heavy_segments,
              steps_left, cls_state, api, cls_outcome>>

th_vars == <<th_result, th_last, th_before, th_edits>>

\* the shutdown flags of the process
sd_vars == <<force_shutdown, force_permanent_shutdown, shutting_down>>

\* the services around the subscriber and the alert pipeline
nt_vars == <<nt_dispatcher, nt_status, nt_log, nt_raised, nt_successes, nt_failures>>

bal_vars == <<claude_balance, claude_topups, claude_usage, bal_initialized, balance_info,
              bal_status, bal_asked, can_make, summary, api_called>>

rn_vars == <<im_pc, restart_count, im_starts, inf_pc, consecutive_failures, failed_runs,
             wait, rb_pc, bot_alive, started_after_shutdown>>

ar_vars == <<route_names, map_files, ar_pc, ar_name, ar_attempt, ar_outcome, ar_existed,
             ar_calls>>

urt_vars == <<historical>>

svc_vars == <<sd_vars, nt_vars, bal_vars, rn_vars, ar_vars, urt_vars, urt_vars>>

ext_vars == <<bot_vars, pa_vars, cls_vars, th_vars, svc_vars>>

vars == <<ign_vars, al_vars, ext_vars>>

\* ---------------------------------------------------------------- helpers
Variants == {"monitor", "script"}

\* Payloads: a JSON object with "Ignition On" true; a JSON object with it false or absent;
\* bytes that are not UTF-8; text that is not JSON; JSON that is not an object.
MsgKinds == {"on", "off", "undecodable", "notjson", "notobject"}

\* json.loads(msg.payload.decode()) followed by payload.get("Ignition On", False)
ParseError(kind) ==
    CASE kind = "undecodable" -> "UnicodeDecodeError"
      [] kind = "notjson"     -> "JSONDecodeError"
      [] kind = "notobject"   -> "AttributeError"
      [] OTHER                -> "none"

IgnitionOn(kind) == kind = "on"

\* The except clauses of on_message.
Caught(v, err) ==
    IF v = "monitor" THEN TRUE
    ELSE err = "JSONDecodeError"

\* a test that lets None through
Truthy_Always(t) == TRUE

\* Python truthiness of a timestamp attribute (None and 0 are falsy)
Truthy(t) == t # None /\ t # 0

RECURSIVE Gcd(_, _)
Gcd(a, b) == IF b = 0 THEN a ELSE Gcd(b, a % b)

Rat(n, d) == LET g == Gcd(n, d) IN <<n \div g, d \div g>>

\* x > q for an integer x and a rational q
IntGreater(x, q) == x * q[2] > q[1]

\* |p - q| > 1
FarApart(p, q) ==
    LET diff == p[1] * q[2] - q[1] * p[2]
        a == IF diff < 0 THEN -diff ELSE diff
    IN a > p[2] * q[2]

RECURSIVE SumSeq(_)
SumSeq(s) == IF s = <<>> THEN 0 ELSE Head(s) + SumSeq(Tail(s))

\* deque(maxlen=100).append
DequeAppend(q, x) ==
    IF Len(q) >= TimestampsMaxLen THEN Append(Tail(q), x) ELSE Append(q, x)

\* twice the average interval, without the minimum
NewTimeout_NoFloor(total, n) == Rat(2 * total, n)

\* lines 102-103: avg_interval = sum(intervals) / len(intervals);
\* new_timeout = max(avg_interval * 2, 5)
NewTimeout(total, n) ==
    IF 2 * total >= MinTimeout * n THEN Rat(2 * total, n) ELSE <<MinTimeout, 1>>

\* _update_timeout: the new <<timeout, last_frequency_update>>
UpdateTimeout(current_time, to, lfu, stamps) ==
    IF current_time - lfu < FrequencyUpdateInterval THEN <<to, lfu>>
    ELSE IF Len(stamps) < 2 THEN <<to, lfu>>
    ELSE
      LET recent == SelectSeq(stamps, LAMBDA t : current_time - t <= FrequencyUpdateInterval)
      IN IF Len(recent) >= 2
         THEN LET intervals == [i \in 1..(Len(recent) - 1) |-> recent[i + 1] - recent[i]]
                  total == SumSeq(intervals)
                  n == Len(intervals)
                  new_timeout == NewTimeout(total, n)
              IN IF FarApart(new_timeout, to)
                 THEN <<new_timeout, current_time>>
                 ELSE <<to, current_time>>
         ELSE <<to, current_time>>

PollInterval == IF variant = "monitor" THEN MonitorPoll ELSE LegacyPoll

\* ------------------------------------------------------------------- Init
IgnInit(V) ==
    /\ variant \in V
    /\ now = Epoch
    /\ ignition_state = FALSE
    /\ last_msg_time = None
    /\ timeout = <<InitialTimeout, 1>>
    /\ message_timestamps = <<>>
    /\ last_frequency_update = Epoch
    /\ inbox = <<>>
    /\ sent = 0
    /\ cb_pc = "idle"
    /\ cb_msg = "none"
    /\ pipeline = "idle"
    /\ mon_pc = "l118"
    /\ mon_elapsed = 0
    /\ mon_wake = 0
    /\ trips = 0
    /\ on_transitions = 0
    /\ off_transitions = 0
    /\ last_on_arrival = None
    /\ gap_exceeded = FALSE
    /\ quiet_since = None
    /\ poll_overdue = FALSE

\* ----------------------------------------------- the route store and the alert run
\* the ids of the rows of the routes table
Routes == {1, 2}

\* total_normal of a classification, in minutes
TotalNormals == {10, 20}

\* NULL in the last_state column / None in Python
NullState == "null"
\* a route_data entry without the "prev_state" key
Absent == "absent"

\* str.lower() on the state strings
Lower(s) ==
    CASE s = "Heavy"   -> "heavy"
      [] s = "Normal"  -> "normal"
      [] s = "Unknown" -> "unknown"
      [] s = "Error"   -> "error"
      [] OTHER         -> s

\* add_route: INSERT ... last_normal_time NULL, last_state 'Normal', historical_times '[]'
NewRoute == [last_state |-> "Normal", last_normal_time |-> None, historical_times |-> <<>>]

\* a trim that keeps the oldest entries instead
LastEntries_KeepFirst(h) ==
    IF Len(h) <= HistoryKeep THEN h ELSE SubSeq(h, 1, HistoryKeep)

\* historical[-20:]
LastEntries(h) ==
    IF Len(h) <= HistoryKeep THEN h ELSE SubSeq(h, Len(h) - HistoryKeep + 1, Len(h))

\* lines 164-168: entry = {"timestamp": ..., "normal_time": ..., "state": ...}
HistoryEntry(stamp, normal_time, state) ==
    [timestamp |-> stamp, normal_time |-> normal_time, state |-> state]

\* an update that appends to the history and leaves last_state and last_normal_time
UpdateRouteTime_HistoryOnly(row, stamp, normal_time, state) ==
    [last_state |-> row.last_state,
     last_normal_time |-> row.last_normal_time,
     historical_times |-> LastEntries(Append(row.historical_times,
                              HistoryEntry(stamp, normal_time, state)))]

\* update_route_time: append the entry, keep the last 20, overwrite the three columns
UpdateRouteTime(row, stamp, normal_time, state) ==
    [last_state |-> state,
     last_normal_time |-> normal_time,
     historical_times |-> LastEntries(Append(row.historical_times,
                              HistoryEntry(stamp, normal_time, state)))]

\* update_last_state: UPDATE routes SET last_state
UpdateLastState(row, state) == [row EXCEPT !.last_state = state]

\* a read that sees the state the run is about to store
GetLastState_AfterWrite(db, r) == al_traffic.state

\* get_last_state: row["last_state"] if row else None
GetLastState(db, r) == IF r \in DOMAIN db THEN db[r].last_state ELSE NullState

\* the entries the loop appends to route_data
TrafficEntry(r, state, prev) == [name |-> r, status |-> state, prev_state |-> prev]
UnknownEntry(r) == [name |-> r, status |-> "Unknown", prev_state |-> Absent]
ErrorEntry(r) == [name |-> r, status |-> "Error", prev_state |-> Absent]

\* line 349: route.get("prev_state", "").lower() if route.get("prev_state") else ""
PrevLower(e) == IF e.prev_state \in {Absent, NullState, ""} THEN "" ELSE Lower(e.prev_state)

\* the decision without the recovery transition
RouteAlerts_HeavyOnly(e) == Lower(e.status) = "heavy"

\* the decision taking every state other than Normal for an alert
RouteAlerts_NotNormal(e) ==
    \/ Lower(e.status) # "normal"
    \/ PrevLower(e) = "heavy" /\ Lower(e.status) = "normal"

\* line 351: (current == "heavy") or (prev == "heavy" and current == "normal")
RouteAlerts(e) ==
    \/ Lower(e.status) = "heavy"
    \/ PrevLower(e) = "heavy" /\ Lower(e.status) = "normal"

\* lines 346-353: the loop that sets discord_alert_needed and breaks
AlertNeeded(rd) == \E i \in 1..Len(rd) : RouteAlerts(rd[i])

\* the Discord webhook's answer: an HTTP status, or 0 when the request raises
PostOutcomes == {0, 200, 204, 500}

\* the history a route has after n earlier classifications, the oldest first
HistoryOfLen(n) == [i \in 1..n |-> HistoryEntry(i - n, 10, "Normal")]

\* the routes table: each route's history has one of the lengths of H
StoreInit(H) ==
    /\ \E n \in H : routes_db = [r \in Routes |->
                          [NewRoute EXCEPT !.historical_times = HistoryOfLen(n)]]
    /\ appended = [r \in Routes |-> routes_db[r].historical_times]

BotInit ==
    /\ bot_pc = "idle"
    /\ bot_run = 0
    /\ bot_routes = <<>>
    /\ bot_traffic = NullState
    /\ bot_results = <<>>

PaInit ==
    /\ pa_pc = "idle"
    /\ pa_run = 0
    /\ pa_routes = <<>>
    /\ pa_results = <<>>
    /\ pa_outcome = [r \in Routes |-> "pending"]
    /\ pa_updated = {}

\* no run of the pipeline has started
RunInit(G) ==
    /\ gotify_configured \in G
    /\ al_pc = "idle"
    /\ al_run = 0
    /\ al_routes = <<>>
    /\ al_traffic = NullState
    /\ al_prev = NullState
    /\ route_data = <<>>
    /\ discord_alert_needed = FALSE
    /\ alerted = FALSE
    /\ gotify_sent = FALSE
    /\ prev_db = [r \in Routes |-> NullState]
    /\ result = [r \in Routes |-> "pending"]
    /\ failed_before = [r \in Routes |-> FALSE]

AlInit(G) == StoreInit({0}) /\ RunInit(G)

RECURSIVE SetToSeq(_)
SetToSeq(S) ==
    IF S = {} THEN <<>>
    ELSE LET m == CHOOSE x \in S : \A y \in S : x <= y
         IN <<m>> \o SetToSeq(S \ {m})

\* the position after the body of the for loop for the current route
AfterRoute == IF Tail(al_routes) = <<>> THEN "l346" ELSE "l304"

\* lines 275-283: routes = get_routes(); a failure is caught by the outer except,
\* an empty list returns
AlStart(ok) ==
    /\ al_pc \in {"idle", "done"}
    /\ al_run < MaxRuns
    /\ al_run' = al_run + 1
    /\ al_routes' = IF ok THEN SetToSeq(DOMAIN routes_db) ELSE <<>>
    /\ al_pc' = IF al_routes' = <<>> THEN "done" ELSE "l304"
    /\ route_data' = <<>>
    /\ al_traffic' = NullState
    /\ al_prev' = NullState
    /\ discord_alert_needed' = FALSE
    /\ alerted' = FALSE
    /\ gotify_sent' = FALSE
    /\ prev_db' = [r \in Routes |-> routes_db[r].last_state]
    /\ result' = [r \in Routes |-> "pending"]
    /\ failed_before' = [r \in Routes |-> result[r] \in {"none", "raise"}]
    /\ UNCHANGED <<routes_db, gotify_configured>>
    /\ UNCHANGED <<appended, ign_vars, ext_vars>>

\* lines 304-319 and 336-343: check_route_traffic returns a verdict, returns None
\* (status Unknown) or raises (status Error)
AlCheck(outcome, normal_time) ==
    /\ al_pc = "l304"
    /\ LET r == Head(al_routes)
       IN /\ result' = [result EXCEPT ![r] = outcome]
          /\ IF outcome \in {"Heavy", "Normal"}
             THEN /\ al_traffic' = [state |-> outcome, total_normal |-> normal_time]
                  /\ al_pc' = "l322"
                  /\ UNCHANGED <<route_data, al_routes>>
             ELSE /\ route_data' = Append(route_data,
                                     IF outcome = "none" THEN UnknownEntry(r) ELSE ErrorEntry(r))
                  /\ al_pc' = AfterRoute
                  /\ al_routes' = Tail(al_routes)
                  /\ al_traffic' = NullState
    /\ UNCHANGED <<routes_db, gotify_configured, al_run, al_prev, discord_alert_needed,
                   alerted, gotify_sent, prev_db>>
    /\ UNCHANGED <<appended, failed_before, ign_vars, ext_vars>>

\* lines 321-330: current_state, prev_state = get_last_state(route_id), route_data.append
AlGetLastState(ok) ==
    /\ al_pc = "l322"
    /\ LET r == Head(al_routes)
       IN IF ok
          THEN /\ al_prev' = GetLastState(routes_db, r)
               /\ route_data' = Append(route_data, TrafficEntry(r, al_traffic.state, al_prev'))
               /\ al_pc' = "l333"
               /\ UNCHANGED <<al_routes, al_traffic>>
          ELSE /\ route_data' = Append(route_data, ErrorEntry(r))
               /\ al_pc' = AfterRoute
               /\ al_routes' = Tail(al_routes)
               /\ al_traffic' = NullState
               /\ al_prev' = NullState
    /\ UNCHANGED <<routes_db, gotify_configured, al_run, discord_alert_needed, alerted,
                   gotify_sent, prev_db, result>>
    /\ UNCHANGED <<appended, failed_before, ign_vars, ext_vars>>

\* line 333: update_route_time(route_id, traffic["total_normal"], current_state)
AlUpdateRouteTime(ok) ==
    /\ al_pc = "l333"
    /\ LET r == Head(al_routes)
       IN IF ok
          THEN /\ routes_db' = [routes_db EXCEPT ![r] =
                                  UpdateRouteTime(@, al_run, al_traffic.total_normal, al_traffic.state)]
               /\ appended' = [appended EXCEPT ![r] =
                                 Append(@, HistoryEntry(al_run, al_traffic.total_normal,
                                                        al_traffic.state))]
               /\ al_pc' = "l334"
               /\ UNCHANGED <<al_routes, al_traffic, al_prev, route_data>>
          ELSE /\ route_data' = Append(route_data, ErrorEntry(r))
               /\ al_pc' = AfterRoute
               /\ al_routes' = Tail(al_routes)
               /\ al_traffic' = NullState
               /\ al_prev' = NullState
               /\ UNCHANGED <<routes_db, appended>>
    /\ UNCHANGED <<gotify_configured, al_run, discord_alert_needed, alerted, gotify_sent,
                   prev_db, result, failed_before>>
    /\ UNCHANGED <<ign_vars, ext_vars>>

\* line 334: update_last_state(route_id, current_state)
AlUpdateLastState(ok) ==
    /\ al_pc = "l334"
    /\ LET r == Head(al_routes)
       IN /\ IF ok
             THEN /\ routes_db' = [routes_db EXCEPT ![r] = UpdateLastState(@, al_traffic.state)]
                  /\ UNCHANGED route_data
             ELSE /\ route_data' = Append(route_data, ErrorEntry(r))
                  /\ UNCHANGED routes_db
          /\ al_pc' = AfterRoute
          /\ al_routes' = Tail(al_routes)
          /\ al_traffic' = NullState
          /\ al_prev' = NullState
    /\ UNCHANGED <<gotify_configured, al_run, discord_alert_needed, alerted, gotify_sent,
                   prev_db, result>>
    /\ UNCHANGED <<appended, failed_before, ign_vars, ext_vars>>

\* lines 345-401: decide, and post the table to the webhook when an alert is needed;
\* a request that raises is caught by the outer except and ends the run
AlDecide(answer) ==
    /\ al_pc = "l346"
    /\ discord_alert_needed' = AlertNeeded(route_data)
    /\ alerted' = (discord_alert_needed' /\ route_data # <<>>)
    /\ al_pc' = IF alerted' /\ answer = 0 THEN "done" ELSE "l404"
    /\ UNCHANGED <<routes_db, gotify_configured, al_run, al_routes, al_traffic, al_prev,
                   route_data, gotify_sent, prev_db, result>>
    /\ UNCHANGED <<appended, failed_before, ign_vars, ext_vars>>

\* lines 403-416: the summary goes to Gotify whatever the states are
AlGotify ==
    /\ al_pc = "l404"
    /\ gotify_sent' = (route_data # <<>> /\ gotify_configured)
    /\ al_pc' = "done"
    /\ UNCHANGED <<routes_db, gotify_configured, al_run, al_routes, al_traffic, al_prev,
                   route_data, discord_alert_needed, alerted, prev_db, result>>
    /\ UNCHANGED <<appended, failed_before, ign_vars, ext_vars>>

\* what a run of post_traffic_alerts_async keeps for itself
al_run_vars == <<gotify_configured, al_pc, al_run, al_routes, al_traffic, al_prev, route_data,
                 discord_alert_needed, alerted, gotify_sent, prev_db, result,
                 failed_before>>

\* ------------------------------------- CheckAllRoutesButton.callback (Discord bot)
\* the position after the body of the second for loop for the current pair
BotAfterRoute == IF Tail(bot_routes) = <<>> THEN "done" ELSE "l1152"

\* lines 1117-1146: routes = await async_get_routes(); one task per route.  A failure is
\* caught by the outer except, an empty list returns.
BotStart(ok) ==
    /\ bot_pc \in {"idle", "done"}
    /\ bot_run < MaxBotRuns
    /\ bot_run' = bot_run + 1
    /\ bot_routes' = IF ok THEN SetToSeq(DOMAIN routes_db) ELSE <<>>
    /\ bot_pc' = IF bot_routes' = <<>> THEN "done" ELSE "l1152"
    /\ bot_traffic' = NullState
    /\ bot_results' = <<>>
    /\ UNCHANGED <<routes_db, appended, al_run_vars, ign_vars, pa_vars, cls_vars, th_vars,
                   svc_vars>>

\* lines 1152-1159 and 1161-1173: traffic_result = await task; results.append.  A task that
\* raises, and a None result ("error" not in None raises TypeError), give an Error result.
BotAwait(outcome, normal_time) ==
    /\ bot_pc = "l1152"
    /\ LET r == Head(bot_routes)
       IN IF outcome \in {"Heavy", "Normal"}
          THEN /\ bot_traffic' = [state |-> outcome, total_normal |-> normal_time]
               /\ bot_results' = Append(bot_results, [route |-> r, state |-> outcome])
               /\ bot_pc' = "l1160"
               /\ UNCHANGED bot_routes
          ELSE /\ bot_results' = Append(bot_results, [route |-> r, state |-> "Error"])
               /\ bot_pc' = BotAfterRoute
               /\ bot_routes' = Tail(bot_routes)
               /\ bot_traffic' = NullState
    /\ UNCHANGED <<bot_run, routes_db, appended, al_run_vars, ign_vars, pa_vars, cls_vars, th_vars,
                   svc_vars>>

\* line 1160: await run_in_thread(update_route_time, route_id, total_normal, state)
BotUpdateRouteTime(ok) ==
    /\ bot_pc = "l1160"
    /\ LET r == Head(bot_routes)
       IN IF ok
          THEN /\ routes_db' = [routes_db EXCEPT ![r] =
                                  UpdateRouteTime(@, bot_run, bot_traffic.total_normal,
                                                  bot_traffic.state)]
               /\ appended' = [appended EXCEPT ![r] =
                                 Append(@, HistoryEntry(bot_run, bot_traffic.total_normal,
                                                        bot_traffic.state))]
               /\ UNCHANGED bot_results
          ELSE /\ bot_results' = Append(bot_results, [route |-> r, state |-> "Error"])
               /\ UNCHANGED <<routes_db, appended>>
    /\ bot_pc' = BotAfterRoute
    /\ bot_routes' = Tail(bot_routes)
    /\ bot_traffic' = NullState
    /\ UNCHANGED <<bot_run, al_run_vars, ign_vars, pa_vars, cls_vars, th_vars, svc_vars>>

\* ---------------------------------------------- process_all_routes (traffic_utils.py)
\* lines 478-483: init_db(); routes = get_routes(); an empty table returns [].  A database
\* error is not caught here.
PaStart(ok) ==
    /\ pa_pc \in {"idle", "done", "raised"}
    /\ pa_run < MaxBatches
    /\ pa_run' = pa_run + 1
    /\ pa_routes' = IF ok THEN SetToSeq(DOMAIN routes_db) ELSE <<>>
    /\ pa_pc' = IF ~ok THEN "raised" ELSE IF pa_routes' = <<>> THEN "done" ELSE "l497"
    /\ pa_results' = <<>>
    /\ pa_outcome' = [r \in Routes |-> "pending"]
    /\ pa_updated' = {}
    /\ UNCHANGED <<al_vars, ign_vars, bot_vars, cls_vars, th_vars, svc_vars>>

\* lines 485-515: traffic = check_route_traffic(...); None skips the route, a verdict is
\* appended to results, an exception is not caught and leaves process_all_routes.
PaCheck(outcome, normal_time) ==
    /\ pa_pc = "l497"
    /\ LET r == Head(pa_routes)
       IN /\ pa_outcome' = [pa_outcome EXCEPT ![r] = outcome]
          /\ pa_results' = IF outcome \in {"Heavy", "Normal"}
                           THEN Append(pa_results, [route_id |-> r, state |-> outcome,
                                                    total_normal |-> normal_time])
                           ELSE pa_results
          /\ IF outcome = "raise"
             THEN pa_pc' = "raised" /\ UNCHANGED pa_routes
             ELSE /\ pa_routes' = Tail(pa_routes)
                  /\ pa_pc' = IF pa_routes' # <<>> THEN "l497"
                              ELSE IF pa_results' # <<>> THEN "l519" ELSE "done"
    /\ UNCHANGED <<pa_run, pa_updated, al_vars, ign_vars, bot_vars, cls_vars,
                   th_vars, svc_vars>>

\* lines 517-522: update_route_time for each result; a failure is printed and skipped
PaUpdate(ok) ==
    /\ pa_pc = "l519"
    /\ LET res == Head(pa_results)
           r == res.route_id
       IN /\ pa_updated' = pa_updated \cup {r}
          /\ IF ok
             THEN /\ routes_db' = [routes_db EXCEPT ![r] =
                                     UpdateRouteTime(@, pa_run, res.total_normal, res.state)]
                  /\ appended' = [appended EXCEPT ![r] =
                                    Append(@, HistoryEntry(pa_run, res.total_normal, res.state))]
             ELSE UNCHANGED <<routes_db, appended>>
    /\ pa_results' = Tail(pa_results)
    /\ pa_pc' = IF pa_results' = <<>> THEN "done" ELSE "l519"
    /\ UNCHANGED <<pa_run, pa_routes, pa_outcome, al_run_vars, ign_vars, bot_vars,
                   cls_vars, th_vars, svc_vars>>

\* ------------------------------------ calculate_baseline and check_route_traffic
\* None as the value of an Optional[float]
NoBaseline == <<>>

\* a baseline dividing by the number of entries, with or without normal_time
CalculateBaseline_DivideByAll(h) ==
    LET times == SelectSeq(h, LAMBDA e : "normal_time" \in DOMAIN e)
    IN IF times = <<>> THEN NoBaseline
       ELSE Rat(SumSeq([i \in 1..Len(times) |-> times[i].normal_time]), Len(h))

\* calculate_baseline: sum(times) / len(times) over the entries that have normal_time
CalculateBaseline(h) ==
    IF h = <<>> THEN NoBaseline
    ELSE LET times == SelectSeq(h, LAMBDA e : "normal_time" \in DOMAIN e)
         IN IF times = <<>> THEN NoBaseline
            ELSE Rat(SumSeq([i \in 1..Len(times) |-> times[i].normal_time]), Len(times))

\* one row of the threshold table; the factors are rationals
Bucket(mn, mx, ft, fs, dt, ds) ==
    [min_km |-> mn, max_km |-> mx, factor_total |-> ft, factor_step |-> fs,
     delay_total |-> dt, delay_step |-> ds]

DEFAULT_THRESHOLDS ==
    << Bucket(0, 2, <<3, 1>>, <<1, 1>>, 5, 1),
       Bucket(2, 5, <<5, 2>>, <<2, 1>>, 10, 2),
       Bucket(5, 20, <<2, 1>>, <<3, 1>>, 15, 5),
       Bucket(20, 50, <<3, 2>>, <<4, 1>>, 30, 10) >>

\* a table edited by the user: it leaves 2-10 km uncovered
CustomThresholds ==
    << Bucket(0, 2, <<2, 1>>, <<2, 1>>, 4, 2),
       Bucket(10, 20, <<3, 1>>, <<2, 1>>, 20, 4) >>

\* the tuple get_dynamic_thresholds returns
Values(b) ==
    [factor_total |-> b.factor_total, factor_step |-> b.factor_step,
     delay_total |-> b.delay_total, delay_step |-> b.delay_step]

\* line 337: return (2.0, 3.0, 15, 5)
HardcodedThresholds ==
    [factor_total |-> <<2, 1>>, factor_step |-> <<3, 1>>, delay_total |-> 15, delay_step |-> 5]

\* json.dumps of a list of threshold dictionaries: the text lists, bucket by bucket, the
\* six numbers of each dictionary
JsonDumps(th) ==
    [i \in 1..Len(th) |-> <<th[i].min_km, th[i].max_km, th[i].factor_total,
                            th[i].factor_step, th[i].delay_total, th[i].delay_step>>]

\* json.loads of such a text
JsonLoads(text) ==
    [i \in 1..Len(text) |-> Bucket(text[i][1], text[i][2], text[i][3], text[i][4],
                                    text[i][5], text[i][6])]

\* an INSERT that leaves an existing row alone
SetConfig_InsertOnly(cfg, value) ==
    IF cfg.stored THEN cfg ELSE [stored |-> TRUE, value |-> JsonDumps(value)]

\* set_config("thresholds", value): INSERT ... ON CONFLICT(name) DO UPDATE SET value
SetConfig(cfg, value) == [stored |-> TRUE, value |-> JsonDumps(value)]

\* get_config("thresholds"): None when the row is missing or its value is empty
GetConfig(cfg) == IF cfg.stored THEN JsonLoads(cfg.value) ELSE <<>>

\* get_thresholds: "if not thresholds" seeds and returns the defaults
GetThresholds(cfg) == IF GetConfig(cfg) = <<>> THEN DEFAULT_THRESHOLDS ELSE GetConfig(cfg)

\* the config row after get_thresholds
ConfigAfterGet(cfg) ==
    IF GetConfig(cfg) = <<>> THEN SetConfig(cfg, DEFAULT_THRESHOLDS) ELSE cfg

\* a fallback to the constants of line 337
FallbackThresholds_Hardcoded(th) == HardcodedThresholds

\* lines 331-334: the last configured bucket
FallbackThresholds(th) == Values(th[Len(th)])

\* a lookup in which a later matching bucket wins
FirstMatch_Latest(matching) == CHOOSE i \in matching : \A j \in matching : i >= j

\* lines 325-328: the loop returns at the first bucket that contains the distance
FirstMatch(matching) == CHOOSE i \in matching : \A j \in matching : i <= j

\* get_dynamic_thresholds, for a distance in metres (distance_km = metres / 1000)
GetDynamicThresholds(th, metres) ==
    LET matching == {i \in 1..Len(th) :
                        th[i].min_km * 1000 <= metres /\ metres <= th[i].max_km * 1000}
    IN IF matching # {}
       THEN Values(th[FirstMatch(matching)])
       ELSE IF th # <<>> THEN FallbackThresholds(th)
       ELSE HardcodedThresholds

\* line 399: effective_normal = baseline if baseline else total_normal
EffectiveNormal(b, normal) ==
    IF b # NoBaseline /\ b[1] # 0 THEN b ELSE <<normal, 1>>

\* max(0, live - normal)
Delay(live, normal) == IF live - normal > 0 THEN live - normal ELSE 0

\* a route-level test whose delay trigger needs more than the threshold
RouteHeavy_StrictDelay(delay, live, eff, thr) ==
    \/ delay > thr.delay_total
    \/ eff[1] > 0 /\ live * eff[2] * thr.factor_total[2] >= eff[1] * thr.factor_total[1]

\* lines 406-409: total_delay >= delay_total, or
\* effective_normal > 0 and total_live >= effective_normal * factor_total
RouteHeavy(delay, live, eff, thr) ==
    \/ delay >= thr.delay_total
    \/ eff[1] > 0 /\ live * eff[2] * thr.factor_total[2] >= eff[1] * thr.factor_total[1]

\* a loop that tests steps of less than a minute too
SkipStep_KeepShort(step) == "duration_in_traffic" \notin DOMAIN step

\* lines 412-413 and 418-419: the two "continue"
SkipStep(step) ==
    \/ "duration_in_traffic" \notin DOMAIN step
    \/ step.duration \div 60 = 0

\* a segment test that ignores the multiplier
StepHeavy_DelayOnly(normal, live, delay, thr) == delay >= thr.delay_step

\* line 421: delay >= delay_step or live >= normal * factor_step
StepHeavy(normal, live, delay, thr) ==
    \/ delay >= thr.delay_step
    \/ live * thr.factor_step[2] >= normal * thr.factor_step[1]

\* the inputs of a classification
HistoryEntries ==
    {[timestamp |-> 0, state |-> "Normal"]} \cup
    {HistoryEntry(0, n, "Normal") : n \in {0, 10, 20}}
Histories == UNION {[1..n -> HistoryEntries] : n \in 0..MaxHist}
Configs ==
    {[stored |-> FALSE, value |-> <<>>], [stored |-> TRUE, value |-> JsonDumps(<<>>)],
     [stored |-> TRUE, value |-> JsonDumps(DEFAULT_THRESHOLDS)],
     [stored |-> TRUE, value |-> JsonDumps(CustomThresholds)]}
StepKinds ==
    {[duration |-> 120], [duration |-> 30, duration_in_traffic |-> 300],
     [duration |-> 60, duration_in_traffic |-> 60],
     [duration |-> 60, duration_in_traffic |-> 120]}
StepSeqs == UNION {[1..n -> StepKinds] : n \in 0..MaxSteps}
Legs ==
    [duration : {30, 600, 1800}, duration_in_traffic : {900, 2400},
     distance : {2000, 3000, 60000}, steps : StepSeqs]

\* an answer that is not "a route with live timing": no API key, a body that is not
\* JSON, no route (with or without error_message), routes without duration_in_traffic
Responses ==
    {a \in [key : BOOLEAN, json : BOOLEAN, routes : {0, 2}, with_traffic : {0, 1},
            error_message : BOOLEAN] : a.with_traffic <= a.routes}

\* the answer whose fastest route is the leg
OkResponse == [key |-> TRUE, json |-> TRUE, routes |-> 1, with_traffic |-> 1,
               error_message |-> FALSE]

\* a check that returns None when no route has live timing
ResponseOutcome_NoneWithoutTraffic(a) ==
    IF ~a.key THEN "ValueError"
    ELSE IF ~a.json THEN "RuntimeError"
    ELSE IF a.routes = 0 THEN (IF a.error_message THEN "RuntimeError" ELSE "none")
    ELSE IF a.with_traffic = 0 THEN "none"
    ELSE "pending"

\* lines 361-389: ValueError without API_KEY, RuntimeError for a body that is not JSON,
\* for error_message without routes and for routes without live timing, None for no
\* route and no error_message; "pending" when the function goes on to classify
ResponseOutcome(a) ==
    IF ~a.key THEN "ValueError"
    ELSE IF ~a.json THEN "RuntimeError"
    ELSE IF a.routes = 0 THEN (IF a.error_message THEN "RuntimeError" ELSE "none")
    ELSE IF a.with_traffic = 0 THEN "RuntimeError"
    ELSE "pending"

ClsInit(H, C, L, A) ==
    /\ cls_pc = "l300"
    /\ historical_data \in H
    /\ config \in C
    /\ leg \in L
    /\ api \in A
    /\ cls_outcome = "pending"
    /\ baseline = NoBaseline
    /\ total_normal = 0
    /\ total_live = 0
    /\ total_delay = 0
    /\ effective_normal = <<0, 1>>
    /\ thresholds = HardcodedThresholds
    /\ is_heavy = FALSE
    /\ heavy_segments = <<>>
    /\ steps_left = <<>>
    /\ cls_state = ""

IdleLeg == [duration |-> 600, duration_in_traffic |-> 900, distance |-> 1000, steps |-> <<>>]

\* no classification is under way
ClsIdle ==
    ClsInit({<<>>}, {[stored |-> FALSE, value |-> <<>>]}, {IdleLeg}, {OkResponse})

\* discord_notify.py line 300: baseline = calculate_baseline(historical_data)
ClsBaseline ==
    /\ cls_pc = "l300"
    /\ baseline' = CalculateBaseline(historical_data)
    /\ cls_pc' = "l361"
    /\ UNCHANGED <<api, historical_data, config, leg, total_normal, total_live, total_delay,
                   effective_normal, thresholds, is_heavy, heavy_segments, steps_left, cls_state>>
    /\ UNCHANGED <<cls_outcome, ign_vars, al_vars, bot_vars, pa_vars, th_vars, svc_vars>>

\* lines 361-391: the request and what becomes of its answer
ClsResponse ==
    /\ cls_pc = "l361"
    /\ cls_outcome' = ResponseOutcome(api)
    /\ cls_pc' = IF cls_outcome' = "pending" THEN "l393" ELSE "returned"
    /\ UNCHANGED <<api, historical_data, config, leg, baseline, total_normal, total_live,
                   total_delay, effective_normal, thresholds, is_heavy, heavy_segments,
                   steps_left, cls_state>>
    /\ UNCHANGED <<ign_vars, al_vars, bot_vars, pa_vars, th_vars, svc_vars>>

\* lines 393-399: the totals in whole minutes and effective_normal
ClsTotals ==
    /\ cls_pc = "l393"
    /\ total_normal' = leg.duration \div 60
    /\ total_live' = leg.duration_in_traffic \div 60
    /\ total_delay' = Delay(total_live', total_normal')
    /\ effective_normal' = EffectiveNormal(baseline, total_normal')
    /\ cls_pc' = "l401"
    /\ UNCHANGED <<api, historical_data, config, leg, baseline, thresholds, is_heavy,
                   heavy_segments, steps_left, cls_state>>
    /\ UNCHANGED <<cls_outcome, ign_vars, al_vars, bot_vars, pa_vars, th_vars, svc_vars>>

\* line 401: get_dynamic_thresholds(distance_km)
ClsThresholds ==
    /\ cls_pc = "l401"
    /\ thresholds' = GetDynamicThresholds(GetThresholds(config), leg.distance)
    /\ config' = ConfigAfterGet(config)
    /\ cls_pc' = "l403"
    /\ UNCHANGED <<api, historical_data, leg, baseline, total_normal, total_live, total_delay,
                   effective_normal, is_heavy, heavy_segments, steps_left, cls_state>>
    /\ UNCHANGED <<cls_outcome, ign_vars, al_vars, bot_vars, pa_vars, th_vars, svc_vars>>

\* lines 403-409: the route-level test
ClsRouteTest ==
    /\ cls_pc = "l403"
    /\ is_heavy' = RouteHeavy(total_delay, total_live, effective_normal, thresholds)
    /\ heavy_segments' = <<>>
    /\ steps_left' = leg.steps
    /\ cls_pc' = IF leg.steps = <<>> THEN "l431" ELSE "l411"
    /\ UNCHANGED <<api, historical_data, config, leg, baseline, total_normal, total_live,
                   total_delay, effective_normal, thresholds, cls_state>>
    /\ UNCHANGED <<cls_outcome, ign_vars, al_vars, bot_vars, pa_vars, th_vars, svc_vars>>

\* lines 411-429: one iteration of the loop over leg["steps"]
ClsStep ==
    /\ cls_pc = "l411"
    /\ LET step == Head(steps_left)
       IN IF SkipStep(step)
          THEN UNCHANGED <<is_heavy, heavy_segments>>
          ELSE LET normal == step.duration \div 60
                   live == step.duration_in_traffic \div 60
                   delay == Delay(live, normal)
               IN IF StepHeavy(normal, live, delay, thresholds)
                  THEN /\ is_heavy' = TRUE
                       /\ heavy_segments' = Append(heavy_segments,
                              [normal |-> normal, live |-> live, delay |-> delay])
                  ELSE UNCHANGED <<is_heavy, heavy_segments>>
    /\ steps_left' = Tail(steps_left)
    /\ cls_pc' = IF steps_left' = <<>> THEN "l431" ELSE "l411"
    /\ UNCHANGED <<api, historical_data, config, leg, baseline, total_normal, total_live,
                   total_delay, effective_normal, thresholds, cls_state>>
    /\ UNCHANGED <<cls_outcome, ign_vars, al_vars, bot_vars, pa_vars, th_vars, svc_vars>>

\* lines 431-443: state = "Heavy" if is_heavy else "Normal"; return the verdict
ClsVerdict ==
    /\ cls_pc = "l431"
    /\ cls_state' = IF is_heavy THEN "Heavy" ELSE "Normal"
    /\ cls_pc' = "done"
    /\ cls_outcome' = "verdict"
    /\ UNCHANGED <<api, historical_data, config, leg, baseline, total_normal, total_live,
                   total_delay, effective_normal, thresholds, is_heavy, heavy_segments,
                   steps_left>>
    /\ UNCHANGED <<ign_vars, al_vars, bot_vars, pa_vars, th_vars, svc_vars>>

\* ---------------------------------------------------------- process shutdown
SdInit ==
    /\ force_shutdown = FALSE
    /\ force_permanent_shutdown = FALSE
    /\ shutting_down = FALSE

\* --------------------------------------------------- notification dispatch
NtInit ==
    /\ nt_dispatcher = "none"
    /\ nt_status = 0
    /\ nt_log = "none"
    /\ nt_raised = FALSE
    /\ nt_successes = 0
    /\ nt_failures = 0

\* -------------------------------------------------------- the balance tracker
\* amounts are in millionths of a dollar, the precision the costs are quantized to
Dollar == 1000000
BufferPercent == 10
AlertThreshold == Dollar
DisableThreshold == Dollar \div 2
InputCostPer1k == 3000
OutputCostPer1k == 15000
StartingBalances == {Dollar, 5 * Dollar}
TopupBalances == {Dollar \div 4, 2 * Dollar}

\* <<input_tokens, output_tokens>> of a response
TokenUsages == {<<150, 50>>, <<1000, 500>>}

BalInit ==
    /\ claude_balance = <<>>
    /\ claude_topups = <<>>
    /\ claude_usage = <<>>
    /\ bal_initialized = "none"
    /\ balance_info = <<>>
    /\ bal_status = [unset |-> TRUE]
    /\ bal_asked = FALSE
    /\ can_make = "none"
    /\ summary = "none"
    /\ api_called = FALSE

\* ------------------------------------------------------------- the runners
MaxRestarts == 10
MaxConsecutiveFailures == 5
ShortDelay == 30
MaxBackoff == 300
RestartDelay == 15

RnInit ==
    /\ im_pc = "l52"
    /\ restart_count = 0
    /\ im_starts = 0
    /\ inf_pc = "l86"
    /\ consecutive_failures = 0
    /\ failed_runs = 0
    /\ wait = 0
    /\ rb_pc = "idle"
    /\ bot_alive = FALSE
    /\ started_after_shutdown = FALSE

\* ------------------------------------------------------------- adding a route
RouteNames == {"home", "work"}
MaxRetries == 2
MaxAddCalls == 2

\* the routes table and MAPS_DIR are empty; no call of async_add_route is in progress
ArInit ==
    /\ route_names = {}
    /\ map_files = {}
    /\ ar_pc = "idle"
    /\ ar_name = "none"
    /\ ar_attempt = 0
    /\ ar_outcome = "none"
    /\ ar_existed = FALSE
    /\ ar_calls = 0

\* the callers of update_route_time that can run at the same time: the alert pipeline
\* and the bot's "Check All Routes" button, each in a thread of the pool
Callers == {"al", "bot"}

\* no call of update_route_time is in progress
UrtInit == historical = [c \in Callers |-> <<>>]

SvcInit == SdInit /\ NtInit /\ BalInit /\ RnInit /\ ArInit /\ UrtInit

rn_im == <<im_pc, restart_count, im_starts>>
rn_bot == <<inf_pc, consecutive_failures, failed_runs, wait, rb_pc, bot_alive,
            started_after_shutdown>>
rn_rest == <<nt_vars, bal_vars, ar_vars, urt_vars, ign_vars, al_vars, bot_vars, pa_vars, cls_vars, th_vars>>

\* start_ignition_monitor line 52: while restart_count < max_restarts and not
\* _force_shutdown; lines 54-56 start a monitor, whose start() blocks
ImLoop ==
    /\ im_pc = "l52"
    /\ IF restart_count < MaxRestarts /\ ~force_shutdown
       THEN im_pc' = "l56" /\ im_starts' = im_starts + 1
       ELSE im_pc' = "returned" /\ im_starts' = im_starts
    /\ UNCHANGED <<restart_count, rn_bot, sd_vars, rn_rest>>

\* lines 58-67: the monitor raises; the count goes up, and the thread sleeps 10 s
\* before the next start or leaves the loop
ImCrash ==
    /\ im_pc = "l56"
    /\ restart_count' = restart_count + 1
    /\ im_pc' = IF restart_count' < MaxRestarts /\ ~force_shutdown THEN "l64" ELSE "returned"
    /\ UNCHANGED <<im_starts, rn_bot, sd_vars, rn_rest>>

\* line 64: time.sleep(10) returns
ImWake ==
    /\ im_pc = "l64"
    /\ im_pc' = "l52"
    /\ UNCHANGED <<restart_count, im_starts, rn_bot, sd_vars, rn_rest>>

\* run_discord_bot_infinite lines 86-95: while not _force_shutdown; the failure count
\* is set to 0 and run_discord_bot is awaited
InfLoop ==
    /\ inf_pc = "l86"
    /\ IF ~force_shutdown
       THEN inf_pc' = "l95" /\ rb_pc' = "l1936" /\ consecutive_failures' = 0
       ELSE inf_pc' = "returned" /\ UNCHANGED <<rb_pc, consecutive_failures>>
    /\ UNCHANGED <<failed_runs, wait, bot_alive, started_after_shutdown, rn_im, sd_vars,
                   rn_rest>>

\* 2 ** n
RECURSIVE Pow2(_)
Pow2(n) == IF n = 0 THEN 1 ELSE 2 * Pow2(n - 1)

Min(a, b) == IF a < b THEN a ELSE b

\* lines 112-119: the wait after a failed run
FailureDelay(failures) ==
    IF failures >= MaxConsecutiveFailures
    THEN Min(MaxBackoff, ShortDelay * Pow2(failures - MaxConsecutiveFailures))
    ELSE ShortDelay

\* lines 108-119: an exception leaves run_discord_bot (whose finally clause closes the
\* bot); the failure is counted and the runner sleeps
InfRunRaises ==
    /\ inf_pc = "l95"
    /\ rb_pc # "idle"
    /\ failed_runs < MaxFailedRuns
    /\ failed_runs' = failed_runs + 1
    /\ consecutive_failures' = consecutive_failures + 1
    /\ wait' = FailureDelay(consecutive_failures')
    /\ inf_pc' = "l116"
    /\ rb_pc' = "idle"
    /\ bot_alive' = FALSE
    /\ UNCHANGED <<started_after_shutdown, rn_im, sd_vars, rn_rest>>

\* the sleep after a failure returns
InfWakeAfterFailure ==
    /\ inf_pc = "l116"
    /\ inf_pc' = "l122"
    /\ UNCHANGED <<consecutive_failures, failed_runs, wait, rb_pc, bot_alive,
                   started_after_shutdown, rn_im, sd_vars, rn_rest>>

\* lines 98-102: run_discord_bot returned
InfAfterRun ==
    /\ inf_pc = "l98"
    /\ inf_pc' = IF force_shutdown THEN "returned" ELSE "l122"
    /\ failed_runs' = 0
    /\ UNCHANGED <<consecutive_failures, wait, rb_pc, bot_alive, started_after_shutdown,
                   rn_im, sd_vars, rn_rest>>

\* lines 122-124: if not _force_shutdown: sleep 15 s before the next attempt
InfRestartDelay ==
    /\ inf_pc = "l122"
    /\ IF ~force_shutdown
       THEN inf_pc' = "l124" /\ wait' = RestartDelay
       ELSE inf_pc' = "l86" /\ wait' = wait
    /\ UNCHANGED <<consecutive_failures, failed_runs, rb_pc, bot_alive,
                   started_after_shutdown, rn_im, sd_vars, rn_rest>>

InfWake ==
    /\ inf_pc = "l124"
    /\ inf_pc' = "l86"
    /\ UNCHANGED <<consecutive_failures, failed_runs, wait, rb_pc, bot_alive,
                   started_after_shutdown, rn_im, sd_vars, rn_rest>>

\* run_discord_bot line 1936: if not _force_permanent_shutdown
RbTestFlag ==
    /\ rb_pc = "l1936"
    /\ rb_pc' = IF ~force_permanent_shutdown THEN "l1937" ELSE "l1939"
    /\ UNCHANGED <<inf_pc, consecutive_failures, failed_runs, wait, bot_alive,
                   started_after_shutdown, rn_im, sd_vars, rn_rest>>

\* line 1937: _shutting_down = False
RbClearShuttingDown ==
    /\ rb_pc = "l1937"
    /\ shutting_down' = FALSE
    /\ rb_pc' = "l1939"
    /\ UNCHANGED <<force_shutdown, force_permanent_shutdown>>
    /\ UNCHANGED <<inf_pc, consecutive_failures, failed_runs, wait, bot_alive,
                   started_after_shutdown, rn_im, rn_rest>>

\* line 1939: while not _force_permanent_shutdown
RbLoop ==
    /\ rb_pc = "l1939"
    /\ rb_pc' = IF ~force_permanent_shutdown THEN "l1941" ELSE "l1970"
    /\ UNCHANGED <<inf_pc, consecutive_failures, failed_runs, wait, bot_alive,
                   started_after_shutdown, rn_im, sd_vars, rn_rest>>

\* lines 1941-1946: a bot instance is created and bot.start(TOKEN) awaited
RbStartBot ==
    /\ rb_pc = "l1941"
    /\ bot_alive' = TRUE
    /\ started_after_shutdown' = (started_after_shutdown \/ force_permanent_shutdown)
    /\ rb_pc' = "l1946"
    /\ UNCHANGED <<inf_pc, consecutive_failures, failed_runs, wait, rn_im, sd_vars, rn_rest>>

\* bot.start raises: lines 1952-1953
RbBotCrash ==
    /\ rb_pc = "l1946"
    /\ rb_pc' = "l1954"
    /\ UNCHANGED <<inf_pc, consecutive_failures, failed_runs, wait, bot_alive,
                   started_after_shutdown, rn_im, sd_vars, rn_rest>>

\* lines 1954-1958, and the finally clause when the loop is left:
\* if _force_permanent_shutdown: break, else sleep 5 s
RbExcept ==
    /\ rb_pc = "l1954"
    /\ IF force_permanent_shutdown
       THEN rb_pc' = "l1970" /\ bot_alive' = FALSE
       ELSE rb_pc' = "l1958" /\ bot_alive' = bot_alive
    /\ UNCHANGED <<inf_pc, consecutive_failures, failed_runs, wait, started_after_shutdown,
                   rn_im, sd_vars, rn_rest>>

\* the sleep of line 1958 returns; lines 1960-1967 close the bot
RbWake ==
    /\ rb_pc = "l1958"
    /\ bot_alive' = FALSE
    /\ rb_pc' = "l1939"
    /\ UNCHANGED <<inf_pc, consecutive_failures, failed_runs, wait, started_after_shutdown,
                   rn_im, sd_vars, rn_rest>>

\* bot.start returns because the bot was closed; the finally clause, then the loop
RbBotEnds ==
    /\ rb_pc = "l1946"
    /\ bot_alive' = FALSE
    /\ rb_pc' = "l1939"
    /\ UNCHANGED <<inf_pc, consecutive_failures, failed_runs, wait, started_after_shutdown,
                   rn_im, sd_vars, rn_rest>>

\* lines 1948-1950: bot.start is cancelled; break, and the finally clause
RbCancelled ==
    /\ rb_pc = "l1946"
    /\ bot_alive' = FALSE
    /\ rb_pc' = "l1970"
    /\ UNCHANGED <<inf_pc, consecutive_failures, failed_runs, wait, started_after_shutdown,
                   rn_im, sd_vars, rn_rest>>

\* lines 1969-1971: soft_cleanup(), and run_discord_bot returns to its caller
RbCleanup ==
    /\ rb_pc = "l1970"
    /\ bot_alive' = FALSE
    /\ rb_pc' = "idle"
    /\ inf_pc' = "l98"
    /\ UNCHANGED <<consecutive_failures, failed_runs, wait, started_after_shutdown, rn_im,
                   sd_vars, rn_rest>>

\* balance * (100 - buffer_percent) / 100, on hundreds and remainder separately
Usable(balance) ==
    (balance \div 100) * (100 - BufferPercent)
       + ((balance % 100) * (100 - BufferPercent)) \div 100

\* n / d rounded to the nearest integer, halves up (n >= 0)
RoundHalfUp(n, d) == (2 * n + d) \div (2 * d)

\* log_usage lines 73-81: (tokens / 1000) * cost per 1k, summed and quantized to
\* 0.000001 with ROUND_HALF_UP
TotalCost(input_tokens, output_tokens) ==
    RoundHalfUp(input_tokens * InputCostPer1k + output_tokens * OutputCostPer1k, 1000)

\* cursor.fetchone(): the next row of the result, or None at its end (<<>>), and the
\* rows left in the cursor
Fetchone(cursor) ==
    IF cursor = <<>> THEN [row |-> <<>>, rest |-> <<>>]
    ELSE [row |-> <<Head(cursor)>>, rest |-> Tail(cursor)]

\* the lookup with a single fetch, tested and then converted, for comparison
GetCurrentBalance_FetchOnce(rows) == IF rows = <<>> THEN <<>> ELSE <<Head(rows)>>

\* get_current_balance, lines 141-155: SELECT ... LIMIT 1, then
\* "dict(cur.fetchone()) if cur.fetchone() else None": the condition takes the row, the
\* conversion fetches again; dict(None) raises TypeError, which the except clause turns
\* into None
GetCurrentBalance(rows) ==
    LET selected == IF rows = <<>> THEN <<>> ELSE <<Head(rows)>>
        tested == Fetchone(selected)
        converted == Fetchone(tested.rest)
    IN IF tested.row = <<>> THEN <<>>
       ELSE IF converted.row = <<>> THEN <<>>
       ELSE converted.row

\* check_balance_thresholds, lines 196-210
CheckBalanceThresholds(rows) ==
    LET info == GetCurrentBalance(rows)
    IN IF info = <<>>
       THEN [below_alert |-> TRUE, below_disable |-> TRUE, balance_available |-> FALSE]
       ELSE [below_alert |-> info[1].usable_balance < AlertThreshold,
             below_disable |-> info[1].usable_balance < DisableThreshold,
             balance_available |-> info[1].usable_balance > 0,
             usable_balance |-> info[1].usable_balance,
             actual_balance |-> info[1].current_calculated_balance]

\* can_make_request, lines 59-73
CanMakeRequest(rows) ==
    LET limits == CheckBalanceThresholds(rows)
    IN IF ~limits.balance_available THEN FALSE
       ELSE IF limits.below_disable THEN FALSE
       ELSE TRUE

\* the rows the joins of _update_current_balance select
NonInitial(topups) == SelectSeq(topups, LAMBDA t : t.reason # "initial_balance")
Successful(usage) == SelectSeq(usage, LAMBDA u : u.success)

Adjustments(topups) == [i \in 1..Len(topups) |-> topups[i].adjustment_amount]
Costs(usage) == [i \in 1..Len(usage) |-> usage[i].total_cost]

\* _update_current_balance, lines 108-139.  The query joins the balance row to every
\* top-up row and each of those to every usage row (neither ON clause relates the
\* tables; a LEFT JOIN without a match gives one row of NULLs), so SUM adds every
\* top-up once per usage row and every usage once per top-up row.
UpdateCurrentBalance(rows, topups, usage) ==
    IF rows = <<>> THEN rows
    ELSE LET ct == NonInitial(topups)
             cu == Successful(usage)
             total_topups == SumSeq(Adjustments(ct)) * (IF cu = <<>> THEN 1 ELSE Len(cu))
             total_usage == SumSeq(Costs(cu)) * (IF ct = <<>> THEN 1 ELSE Len(ct))
             current_balance == rows[1].starting_balance + total_topups - total_usage
         IN [i \in 1..Len(rows) |->
                [rows[i] EXCEPT !.current_calculated_balance = current_balance,
                                !.usable_balance = Usable(current_balance)]]

\* ClaudeBalanceTracker.initialize -> initialize_balance, lines 36-66
Initialize(starting_balance) ==
    /\ IF claude_balance # <<>>
       THEN /\ bal_initialized' = "False"
            /\ UNCHANGED <<claude_balance, claude_topups>>
       ELSE /\ claude_balance' = <<[starting_balance |-> starting_balance,
                                    current_calculated_balance |-> starting_balance,
                                    usable_balance |-> Usable(starting_balance),
                                    buffer_percent |-> BufferPercent]>>
            /\ claude_topups' = Append(claude_topups,
                                       [adjustment_amount |-> starting_balance,
                                        reason |-> "initial_balance"])
            /\ bal_initialized' = "True"
    /\ bal_asked' = (bal_asked /\ claude_balance' = claude_balance)
    /\ can_make' = IF claude_balance' = claude_balance THEN can_make ELSE "none"
    /\ UNCHANGED <<claude_usage, balance_info, bal_status, summary, api_called>>
    /\ UNCHANGED <<sd_vars, nt_vars, rn_vars, ar_vars, urt_vars,
                   ign_vars, al_vars, bot_vars, pa_vars, cls_vars, th_vars>>

\* topup_balance, lines 157-194: the balance becomes the new total, and the difference
\* to the current balance is logged as the adjustment
TopupBalance(new_total_balance) ==
    /\ claude_balance # <<>>
    /\ Len(NonInitial(claude_topups)) < MaxTopups
    /\ claude_balance' = [i \in 1..Len(claude_balance) |->
                             [claude_balance[i] EXCEPT
                                 !.current_calculated_balance = new_total_balance,
                                 !.usable_balance = Usable(new_total_balance)]]
    /\ claude_topups' = Append(claude_topups,
                               [adjustment_amount |->
                                   new_total_balance
                                      - claude_balance[1].current_calculated_balance,
                                reason |-> "topup"])
    /\ bal_asked' = (bal_asked /\ claude_balance' = claude_balance)
    /\ can_make' = IF claude_balance' = claude_balance THEN can_make ELSE "none"
    /\ UNCHANGED <<claude_usage, bal_initialized, balance_info, bal_status, summary,
                   api_called>>
    /\ UNCHANGED <<sd_vars, nt_vars, rn_vars, ar_vars, urt_vars,
                   ign_vars, al_vars, bot_vars, pa_vars, cls_vars, th_vars>>

\* log_usage, lines 68-106: the usage row is inserted and the balance recomputed
LogUsage(input_tokens, output_tokens, success) ==
    /\ Len(claude_usage) < MaxUsage
    /\ claude_usage' = Append(claude_usage,
                              [total_cost |-> TotalCost(input_tokens, output_tokens),
                               success |-> success])
    /\ claude_balance' = UpdateCurrentBalance(claude_balance, claude_topups, claude_usage')
    /\ bal_asked' = (bal_asked /\ claude_balance' = claude_balance)
    /\ can_make' = IF claude_balance' = claude_balance THEN can_make ELSE "none"
    /\ UNCHANGED <<claude_topups, bal_initialized, balance_info, bal_status, summary,
                   api_called>>
    /\ UNCHANGED <<sd_vars, nt_vars, rn_vars, ar_vars, urt_vars,
                   ign_vars, al_vars, bot_vars, pa_vars, cls_vars, th_vars>>

\* get_balance_status, lines 75-110 (the usage figures of the status are left out)
GetBalanceStatus ==
    /\ balance_info' = GetCurrentBalance(claude_balance)
    /\ LET limits == CheckBalanceThresholds(claude_balance)
       IN bal_status' =
             IF balance_info' = <<>>
             THEN [error |-> "No balance information available"]
             ELSE IF "usable_balance" \notin DOMAIN limits
             THEN [raised |-> "KeyError"]
             ELSE [current_balance |-> balance_info'[1].current_calculated_balance,
                   usable_balance |-> limits.usable_balance,
                   buffer_percent |-> balance_info'[1].buffer_percent,
                   below_alert |-> limits.below_alert,
                   below_disable |-> limits.below_disable,
                   can_make_requests |-> ~limits.below_disable]
    /\ bal_asked' = TRUE
    /\ UNCHANGED <<claude_balance, claude_topups, claude_usage, bal_initialized, can_make,
                   summary, api_called>>
    /\ UNCHANGED <<sd_vars, nt_vars, rn_vars, ar_vars, urt_vars,
                   ign_vars, al_vars, bot_vars, pa_vars, cls_vars, th_vars>>

\* test_can_make_request: tracker.can_make_request()
AskCanMakeRequest ==
    /\ can_make' = IF CanMakeRequest(claude_balance) THEN "True" ELSE "False"
    /\ UNCHANGED <<claude_balance, claude_topups, claude_usage, bal_initialized,
                   balance_info, bal_status, bal_asked, summary, api_called>>
    /\ UNCHANGED <<sd_vars, nt_vars, rn_vars, ar_vars, urt_vars,
                   ign_vars, al_vars, bot_vars, pa_vars, cls_vars, th_vars>>

\* generate_claude_summary, lines 71-172: without an API key, or with a tracker that
\* refuses the request, the simple summary; otherwise the API is called, a 200 answer
\* is the summary and its usage is tracked, anything else ends in the simple summary
GenerateClaudeSummary(api_key, tracker, answered, tokens) ==
    /\ LET allowed == IF tracker THEN CanMakeRequest(claude_balance) ELSE TRUE
           posted == api_key /\ allowed
           tracked == posted /\ answered /\ tracker /\ Len(claude_usage) < MaxUsage
       IN /\ can_make' = IF api_key /\ tracker
                         THEN (IF allowed THEN "True" ELSE "False")
                         ELSE "none"
          /\ api_called' = posted
          /\ summary' = IF posted /\ answered THEN "claude" ELSE "simple"
          /\ IF tracked
             THEN /\ claude_usage' = Append(claude_usage,
                                            [total_cost |-> TotalCost(tokens[1], tokens[2]),
                                             success |-> TRUE])
                  /\ claude_balance' = UpdateCurrentBalance(claude_balance, claude_topups,
                                                            claude_usage')
             ELSE UNCHANGED <<claude_usage, claude_balance>>
    /\ bal_asked' = (bal_asked /\ claude_balance' = claude_balance)
    /\ UNCHANGED <<claude_topups, bal_initialized, balance_info, bal_status>>
    /\ UNCHANGED <<sd_vars, nt_vars, rn_vars, ar_vars, urt_vars,
                   ign_vars, al_vars, bot_vars, pa_vars, cls_vars, th_vars>>

\* the statuses a server answers with
HttpStatuses == {200, 201, 202, 204, 400, 500}

\* discord_notify.py line 395: if resp.status not in (200, 204)
WebhookAccepts(status) == status \in {200, 204}

\* discord_notify.py line 240: if resp.status not in (200, 201)
GotifyAccepts(status) == status \in {200, 201}

\* test/discord_notify.py line 12: if response.status_code == 204
SendAlertAccepts(status) == status = 204

\* one request of a dispatcher, answered with the status, and the line it logs
Dispatch(dispatcher, status, accepted) ==
    /\ nt_successes + nt_failures < MaxDispatches
    /\ nt_dispatcher' = dispatcher
    /\ nt_status' = status
    /\ nt_log' = IF accepted THEN "success" ELSE "failure"
    /\ nt_successes' = IF accepted THEN nt_successes + 1 ELSE nt_successes
    /\ nt_failures' = IF accepted THEN nt_failures ELSE nt_failures + 1
    /\ nt_raised' = FALSE
    /\ UNCHANGED <<sd_vars, bal_vars, rn_vars, ar_vars, urt_vars,
                   ign_vars, al_vars, bot_vars, pa_vars, cls_vars, th_vars>>

\* post_traffic_alerts_async lines 394-399: logger.error on a refused status,
\* logger.info otherwise
PostWebhook(status) == Dispatch("webhook", status, WebhookAccepts(status))

\* send_gotify_notification lines 238-245 raises on a refused status; its caller
\* (lines 408-412) catches the exception and logs it
SendGotify(status) == Dispatch("gotify", status, GotifyAccepts(status))

\* send_alert lines 6-15: one of two lines is printed
SendAlert(status) == Dispatch("send_alert", status, SendAlertAccepts(status))

\* main.signal_handler: SIGTERM or SIGINT sets _force_shutdown and calls
\* force_permanent_shutdown(); the exit itself is left to the main loop
Signal ==
    /\ ~force_shutdown
    /\ force_shutdown' = TRUE
    /\ force_permanent_shutdown' = TRUE
    /\ shutting_down' = TRUE
    /\ UNCHANGED <<nt_vars, bal_vars, rn_vars, ar_vars, urt_vars,
                   ign_vars, al_vars, bot_vars, pa_vars, cls_vars, th_vars>>

\* ------------------------------------------- the threshold table's operations
ThInit ==
    /\ th_result = <<>>
    /\ th_last = [op |-> "none", arg |-> <<>>]
    /\ th_before = [op |-> "none", arg |-> <<>>]
    /\ th_edits = 0

\* the tables a caller hands to set_thresholds
ThresholdTables == {<<>>, DEFAULT_THRESHOLDS, CustomThresholds}

\* what a user types into a field of the edit form, as float(text) reads it; text that
\* is no number makes float raise ValueError (numeric = FALSE below)
FactorInputs == {<<1, 2>>, <<2, 1>>}
DelayInputs == {-1, 4}

\* get_thresholds()
ThGet ==
    /\ th_result' = GetThresholds(config)
    /\ config' = ConfigAfterGet(config)
    /\ th_before' = th_last
    /\ th_last' = [op |-> "get", arg |-> <<>>]
    /\ UNCHANGED <<th_edits, cls_rest, ign_vars, al_vars, bot_vars, pa_vars,
                   svc_vars>>

\* set_thresholds(thresholds)
ThSet(table) ==
    /\ config' = SetConfig(config, table)
    /\ th_before' = th_last
    /\ th_last' = [op |-> "set", arg |-> table]
    /\ UNCHANGED <<th_result, th_edits, cls_rest, ign_vars, al_vars, bot_vars, pa_vars,
                   svc_vars>>

\* reset_thresholds()
ThReset ==
    /\ config' = SetConfig(config, DEFAULT_THRESHOLDS)
    /\ th_before' = th_last
    /\ th_last' = [op |-> "reset", arg |-> <<>>]
    /\ UNCHANGED <<th_result, th_edits, cls_rest, ign_vars, al_vars, bot_vars, pa_vars,
                   svc_vars>>

\* route_manager.edit_threshold / EditThresholdModal.on_submit: the table is read, the
\* chosen bucket's field becomes float(input) and the whole table is stored; an input
\* that is no number stores nothing
ThEdit(i, key, input, numeric) ==
    /\ th_edits < MaxEdits
    /\ th_edits' = th_edits + 1
    /\ LET table == GetThresholds(config)
       IN /\ i \in 1..Len(table)
          /\ IF ~numeric
             THEN /\ config' = ConfigAfterGet(config)
                  /\ th_last' = [op |-> "get", arg |-> <<>>]
                  /\ th_result' = table
             ELSE LET edited == [table EXCEPT ![i] = [@ EXCEPT ![key] = input]]
                  IN /\ config' = SetConfig(ConfigAfterGet(config), edited)
                     /\ th_last' = [op |-> "set", arg |-> edited]
                     /\ th_result' = table
    /\ th_before' = th_last
    /\ UNCHANGED <<cls_rest, ign_vars, al_vars, bot_vars, pa_vars,
                   svc_vars>>

\* Both variants of the subscriber; the alert pipeline is not running.
Init == IgnInit(Variants) /\ AlInit({FALSE}) /\ BotInit /\ PaInit /\ ThInit /\ SvcInit /\ ClsIdle

\* The alert pipeline with and without Gotify; the subscriber receives nothing.
AlertsInit == IgnInit({"monitor"}) /\ AlInit(BOOLEAN) /\ BotInit /\ PaInit /\ ThInit /\ SvcInit /\ ClsIdle

Running == cb_pc # "crashed"

\* ------------------------------------------------------------ environment
\* The broker delivers a message to the client's network loop.
Arrive(kind) ==
    /\ Running
    /\ sent < MaxMsgs
    /\ Len(inbox) < InboxCap
    /\ inbox' = Append(inbox, kind)
    /\ sent' = sent + 1
    /\ quiet_since' = now
    /\ poll_overdue' = FALSE
    /\ last_on_arrival' = IF kind = "on" THEN now ELSE last_on_arrival
    /\ UNCHANGED <<al_vars, ext_vars>>
    /\ UNCHANGED <<variant, now, ignition_state, last_msg_time, timeout, message_timestamps,
                   last_frequency_update, cb_pc, cb_msg, pipeline, mon_pc, mon_elapsed,
                   mon_wake, trips, on_transitions, off_transitions, gap_exceeded>>

\* Straight-line code takes no time: time passes while the callback thread waits for a
\* message or is blocked in the pipeline call, and the monitor thread sleeps.
TimeCanPass ==
    /\ mon_pc \in {"sleep", "crashed"}
    /\ IF cb_pc = "idle" THEN inbox = <<>> ELSE cb_pc = "pipeline"

\* t seconds or more than the current timeout have passed since the latest ignition-true message
GapReached(t) ==
    /\ last_on_arrival # None
    /\ (t - last_on_arrival) * timeout[2] >= timeout[1]

\* d seconds pass.
TickBy(d, horizon) ==
    /\ Running
    /\ now + d <= horizon
    /\ TimeCanPass
    /\ now' = now + d
    /\ gap_exceeded' = (gap_exceeded \/ GapReached(now + d))
    /\ UNCHANGED <<al_vars, ext_vars>>
    /\ UNCHANGED <<variant, ignition_state, last_msg_time, timeout, message_timestamps,
                   last_frequency_update, inbox, sent, cb_pc, cb_msg, pipeline, mon_pc,
                   mon_elapsed, mon_wake, trips, on_transitions, off_transitions,
                   last_on_arrival, quiet_since, poll_overdue>>

\* One second passes.
Tick == TickBy(1, MaxTime)

\* A silence just longer than the initial timeout passes in one step.
SilenceStep == InitialTimeout + 1
SilenceHorizon == Epoch + MaxSilences * SilenceStep
LongTick == TickBy(SilenceStep, SilenceHorizon)

\* Most of a frequency-update interval passes in one step, then single seconds.
AdaptiveJump == FrequencyUpdateInterval - 3
AdaptiveHorizon == Epoch + AdaptiveJump + MaxLateTicks
AdaptiveTick ==
    IF now < Epoch + AdaptiveJump
    THEN TickBy(AdaptiveJump, AdaptiveHorizon)
    ELSE TickBy(1, AdaptiveHorizon)

\* -------------------------------------------------- on_message (MQTT loop thread)
\* The network loop calls on_message; lines 45-46 parse the payload.  An exception the
\* handler's except clauses do not catch leaves the callback and ends loop_forever.
CbRecv ==
    /\ cb_pc = "idle"
    /\ inbox # <<>>
    /\ inbox' = Tail(inbox)
    /\ LET kind == Head(inbox)
           err == ParseError(kind)
       IN IF err = "none"
          THEN cb_pc' = "l48" /\ cb_msg' = kind
          ELSE /\ cb_pc' = IF Caught(variant, err) THEN "idle" ELSE "crashed"
               /\ cb_msg' = "none"
    /\ quiet_since' = IF cb_pc' = "idle" THEN now ELSE quiet_since
    /\ UNCHANGED <<al_vars, ext_vars>>
    /\ UNCHANGED <<variant, now, ignition_state, last_msg_time, timeout, message_timestamps,
                   last_frequency_update, sent, pipeline, mon_pc, mon_elapsed, mon_wake, trips,
                   on_transitions, off_transitions, last_on_arrival, gap_exceeded, poll_overdue>>

\* lines 48-50: current_time = time.time(); self.last_msg_time = current_time;
\* self.message_timestamps.append(current_time)   (the script keeps no timestamps)
CbStamp ==
    /\ cb_pc = "l48"
    /\ last_msg_time' = now
    /\ message_timestamps' = IF variant = "monitor"
                             THEN DequeAppend(message_timestamps, now)
                             ELSE message_timestamps
    /\ cb_pc' = "l53"
    /\ UNCHANGED <<al_vars, ext_vars>>
    /\ UNCHANGED <<variant, now, ignition_state, timeout, last_frequency_update, inbox, sent,
                   cb_msg, pipeline, mon_pc, mon_elapsed, mon_wake, trips, on_transitions,
                   off_transitions, last_on_arrival, gap_exceeded, quiet_since, poll_overdue>>

\* line 53: self._update_timeout()   (the script's timeout is a constant)
CbUpdateTimeout ==
    /\ cb_pc = "l53"
    /\ LET r == IF variant = "monitor"
                THEN UpdateTimeout(now, timeout, last_frequency_update, message_timestamps)
                ELSE <<timeout, last_frequency_update>>
       IN timeout' = r[1] /\ last_frequency_update' = r[2]
    /\ cb_pc' = "l56"
    /\ UNCHANGED <<al_vars, ext_vars>>
    /\ UNCHANGED <<variant, now, ignition_state, last_msg_time, message_timestamps, inbox, sent,
                   cb_msg, pipeline, mon_pc, mon_elapsed, mon_wake, trips, on_transitions,
                   off_transitions, last_on_arrival, gap_exceeded, quiet_since, poll_overdue>>

\* the check without its "already ON" half
ShouldHandleIgnitionOn_NoDebounce(ignition_on, state) == ignition_on

\* line 56: if ignition_on and not self.ignition_state
ShouldHandleIgnitionOn(ignition_on, state) == ignition_on /\ ~state

CbCheck ==
    /\ cb_pc = "l56"
    /\ IF ShouldHandleIgnitionOn(IgnitionOn(cb_msg), ignition_state)
       THEN cb_pc' = "l66" /\ cb_msg' = cb_msg
       ELSE cb_pc' = "idle" /\ cb_msg' = "none"
    /\ quiet_since' = IF cb_pc' = "idle" THEN now ELSE quiet_since
    /\ UNCHANGED <<al_vars, ext_vars>>
    /\ UNCHANGED <<variant, now, ignition_state, last_msg_time, timeout, message_timestamps,
                   last_frequency_update, inbox, sent, pipeline, mon_pc, mon_elapsed, mon_wake,
                   trips, on_transitions, off_transitions, last_on_arrival, gap_exceeded,
                   poll_overdue>>

\* line 66 (script: line 30): self.ignition_state = True
CbSetOn ==
    /\ cb_pc = "l66"
    /\ ignition_state' = TRUE
    /\ on_transitions' = IF ignition_state THEN on_transitions ELSE on_transitions + 1
    /\ cb_pc' = "l74"
    /\ UNCHANGED <<al_vars, ext_vars>>
    /\ UNCHANGED <<variant, now, last_msg_time, timeout, message_timestamps,
                   last_frequency_update, inbox, sent, cb_msg, pipeline, mon_pc, mon_elapsed,
                   mon_wake, trips, off_transitions, last_on_arrival, gap_exceeded,
                   quiet_since, poll_overdue>>

\* lines 67-74: "Ignition ON detected", then the pipeline is called in the callback itself
\* (script, lines 31-32: the event is only printed, and on_message returns).
CbTripStarted ==
    /\ cb_pc = "l74"
    /\ trips' = trips + 1
    /\ IF variant = "monitor"
       THEN cb_pc' = "pipeline" /\ pipeline' = "running" /\ cb_msg' = cb_msg
       ELSE cb_pc' = "idle" /\ pipeline' = pipeline /\ cb_msg' = "none"
    /\ quiet_since' = IF cb_pc' = "idle" THEN now ELSE quiet_since
    /\ UNCHANGED <<al_vars, ext_vars>>
    /\ UNCHANGED <<variant, now, ignition_state, last_msg_time, timeout, message_timestamps,
                   last_frequency_update, inbox, sent, mon_pc, mon_elapsed, mon_wake,
                   on_transitions, off_transitions, last_on_arrival, gap_exceeded, poll_overdue>>

\* lines 74-78: the pipeline returns or raises; either way _handle_ignition_on and
\* on_message return.
CbPipelineEnd ==
    /\ cb_pc = "pipeline"
    /\ pipeline' = "idle"
    /\ cb_pc' = "idle"
    /\ cb_msg' = "none"
    /\ quiet_since' = now
    /\ UNCHANGED <<al_vars, ext_vars>>
    /\ UNCHANGED <<variant, now, ignition_state, last_msg_time, timeout, message_timestamps,
                   last_frequency_update, inbox, sent, mon_pc, mon_elapsed, mon_wake, trips,
                   on_transitions, off_transitions, last_on_arrival, gap_exceeded, poll_overdue>>

\* ------------------------------------------- _monitor_ignition (monitor thread)
\* Silence longer than the timeout, with state ON and nothing being processed.
Overdue ==
    /\ ignition_state
    /\ cb_pc = "idle"
    /\ inbox = <<>>
    /\ quiet_since # None
    /\ IntGreater(now - quiet_since, timeout)

\* line 118: if self.ignition_state and self.last_msg_time
MonCheck ==
    /\ Running
    /\ mon_pc = "l118"
    /\ mon_pc' = IF ignition_state /\ Truthy(last_msg_time) THEN "l119" ELSE "l128"
    /\ poll_overdue' = Overdue
    /\ UNCHANGED <<al_vars, ext_vars>>
    /\ UNCHANGED <<variant, now, ignition_state, last_msg_time, timeout, message_timestamps,
                   last_frequency_update, inbox, sent, cb_pc, cb_msg, pipeline, mon_elapsed,
                   mon_wake, trips, on_transitions, off_transitions, last_on_arrival,
                   gap_exceeded, quiet_since>>

\* line 119: time_since_last = time.time() - self.last_msg_time
\* (float - None raises TypeError, which ends the monitor thread)
MonElapsed ==
    /\ Running
    /\ mon_pc = "l119"
    /\ IF last_msg_time = None
       THEN mon_pc' = "crashed" /\ mon_elapsed' = mon_elapsed
       ELSE mon_pc' = "l121" /\ mon_elapsed' = now - last_msg_time
    /\ UNCHANGED <<al_vars, ext_vars>>
    /\ UNCHANGED <<variant, now, ignition_state, last_msg_time, timeout, message_timestamps,
                   last_frequency_update, inbox, sent, cb_pc, cb_msg, pipeline, mon_wake,
                   trips, on_transitions, off_transitions, last_on_arrival, gap_exceeded,
                   quiet_since, poll_overdue>>

\* line 121: if time_since_last > self.timeout
TimedOut(elapsed, to) == IntGreater(elapsed, to)

MonCompare ==
    /\ Running
    /\ mon_pc = "l121"
    /\ mon_pc' = IF TimedOut(mon_elapsed, timeout) THEN "l122" ELSE "l128"
    /\ mon_elapsed' = 0
    /\ UNCHANGED <<al_vars, ext_vars>>
    /\ UNCHANGED <<variant, now, ignition_state, last_msg_time, timeout, message_timestamps,
                   last_frequency_update, inbox, sent, cb_pc, cb_msg, pipeline, mon_wake,
                   trips, on_transitions, off_transitions, last_on_arrival, gap_exceeded,
                   quiet_since, poll_overdue>>

\* line 122: self.ignition_state = False
MonSetOff ==
    /\ Running
    /\ mon_pc = "l122"
    /\ ignition_state' = FALSE
    /\ off_transitions' = IF ignition_state THEN off_transitions + 1 ELSE off_transitions
    /\ mon_pc' = "l126"
    /\ UNCHANGED <<al_vars, ext_vars>>
    /\ UNCHANGED <<variant, now, last_msg_time, timeout, message_timestamps,
                   last_frequency_update, inbox, sent, cb_pc, cb_msg, pipeline, mon_elapsed,
                   mon_wake, trips, on_transitions, last_on_arrival, gap_exceeded,
                   quiet_since, poll_overdue>>

\* line 126: self.last_msg_time = None
MonClear ==
    /\ Running
    /\ mon_pc = "l126"
    /\ last_msg_time' = None
    /\ mon_pc' = "l128"
    /\ UNCHANGED <<al_vars, ext_vars>>
    /\ UNCHANGED <<variant, now, ignition_state, timeout, message_timestamps,
                   last_frequency_update, inbox, sent, cb_pc, cb_msg, pipeline, mon_elapsed,
                   mon_wake, trips, on_transitions, off_transitions, last_on_arrival,
                   gap_exceeded, quiet_since, poll_overdue>>

\* line 128: time.sleep(2) begins   (script: time.sleep(1))
MonSleep ==
    /\ Running
    /\ mon_pc = "l128"
    /\ mon_wake' = now + PollInterval
    /\ mon_pc' = "sleep"
    /\ UNCHANGED <<al_vars, ext_vars>>
    /\ UNCHANGED <<variant, now, ignition_state, last_msg_time, timeout, message_timestamps,
                   last_frequency_update, inbox, sent, cb_pc, cb_msg, pipeline, mon_elapsed,
                   trips, on_transitions, off_transitions, last_on_arrival, gap_exceeded,
                   quiet_since, poll_overdue>>

\* time.sleep returns once the interval has passed; the loop starts over.
MonWake ==
    /\ Running
    /\ mon_pc = "sleep"
    /\ now >= mon_wake
    /\ mon_wake' = 0
    /\ mon_pc' = "l118"
    /\ UNCHANGED <<al_vars, ext_vars>>
    /\ UNCHANGED <<variant, now, ignition_state, last_msg_time, timeout, message_timestamps,
                   last_frequency_update, inbox, sent, cb_pc, cb_msg, pipeline, mon_elapsed,
                   trips, on_transitions, off_transitions, last_on_arrival, gap_exceeded,
                   quiet_since, poll_overdue>>

IgnNext ==
    \/ \E kind \in MsgKinds : Arrive(kind)
    \/ Tick
    \/ CbRecv
    \/ CbStamp
    \/ CbUpdateTimeout
    \/ CbCheck
    \/ CbSetOn
    \/ CbTripStarted
    \/ CbPipelineEnd
    \/ MonCheck
    \/ MonElapsed
    \/ MonCompare
    \/ MonSetOff
    \/ MonClear
    \/ MonSleep
    \/ MonWake

Next == IgnNext

Spec == Init /\ [][Next]_vars

\* The same program observed only at instants one long silence apart.
SilenceNext ==
    \/ \E kind \in MsgKinds : Arrive(kind)
    \/ LongTick
    \/ CbRecv
    \/ CbStamp
    \/ CbUpdateTimeout
    \/ CbCheck
    \/ CbSetOn
    \/ CbTripStarted
    \/ CbPipelineEnd
    \/ MonCheck
    \/ MonElapsed
    \/ MonCompare
    \/ MonSetOff
    \/ MonClear
    \/ MonSleep
    \/ MonWake

SpecSilence == Init /\ [][SilenceNext]_vars

\* The monitor variant observed around the end of a frequency-update interval.
AdaptiveInit == IgnInit({"monitor"}) /\ AlInit({FALSE}) /\ BotInit /\ PaInit /\ ThInit /\ SvcInit /\ ClsIdle

AdaptiveNext ==
    \/ \E kind \in {"on", "off"} : Arrive(kind)
    \/ AdaptiveTick
    \/ CbRecv
    \/ CbStamp
    \/ CbUpdateTimeout
    \/ CbCheck
    \/ CbSetOn
    \/ CbTripStarted
    \/ CbPipelineEnd
    \/ MonCheck
    \/ MonElapsed
    \/ MonCompare
    \/ MonSetOff
    \/ MonClear
    \/ MonSleep
    \/ MonWake

SpecAdaptive == AdaptiveInit /\ [][AdaptiveNext]_vars

\* The monitor variant with a shutdown signal arriving at any moment; the daemon threads
\* run on until the process ends.
ShutdownNext ==
    \/ Signal
    \/ \E kind \in {"on"} : Arrive(kind)
    \/ Tick
    \/ CbRecv
    \/ CbStamp
    \/ CbUpdateTimeout
    \/ CbCheck
    \/ CbSetOn
    \/ CbTripStarted
    \/ CbPipelineEnd
    \/ MonCheck
    \/ MonElapsed
    \/ MonCompare
    \/ MonSetOff
    \/ MonClear
    \/ MonSleep
    \/ MonWake

SpecShutdown == AdaptiveInit /\ [][ShutdownNext]_vars

\* The three dispatchers, each answered with any status.
DispatchNext ==
    \/ \E status \in HttpStatuses : PostWebhook(status)
    \/ \E status \in HttpStatuses : SendGotify(status)
    \/ \E status \in HttpStatuses : SendAlert(status)

SpecDispatch == AdaptiveInit /\ [][DispatchNext]_vars

\* The balance tracker initialised, topped up and asked for its status in any order.
BalanceNext ==
    \/ \E starting_balance \in StartingBalances : Initialize(starting_balance)
    \/ \E new_total_balance \in TopupBalances : TopupBalance(new_total_balance)
    \/ /\ claude_balance # <<>>
       /\ \E tokens \in TokenUsages, success \in BOOLEAN :
             LogUsage(tokens[1], tokens[2], success)
    \/ GetBalanceStatus
    \/ AskCanMakeRequest
    \/ \E api_key \in BOOLEAN, tracker \in BOOLEAN, answered \in BOOLEAN,
          tokens \in TokenUsages : GenerateClaudeSummary(api_key, tracker, answered, tokens)

SpecBalance == AdaptiveInit /\ [][BalanceNext]_vars

\* the steps the runners take by themselves
RunnerStep ==
    \/ ImLoop
    \/ ImWake
    \/ InfLoop
    \/ InfWakeAfterFailure
    \/ InfAfterRun
    \/ InfRestartDelay
    \/ InfWake
    \/ RbTestFlag
    \/ RbClearShuttingDown
    \/ RbLoop
    \/ RbStartBot
    \/ RbExcept
    \/ RbWake
    \/ RbCleanup

\* what happens to them: a signal, a monitor or a bot that raises, a bot that ends
RunnerEvent ==
    \/ Signal
    \/ ImCrash
    \/ InfRunRaises
    \/ RbBotCrash
    \/ RbBotEnds
    \/ RbCancelled

RunnersNext == RunnerStep \/ RunnerEvent

\* The monitor thread's runner and the bot's runners, with a signal at any moment.
SpecRunners == AdaptiveInit /\ [][RunnersNext]_vars

\* The same, where a runner that can take a step takes it.
SpecRunnersFair == SpecRunners /\ WF_vars(RunnerStep)

\* Runs of the alert pipeline, one after the other.
AlNext ==
    \/ \E ok \in BOOLEAN : AlStart(ok)
    \/ \E outcome \in {"Heavy", "Normal", "none", "raise"}, tn \in TotalNormals :
          AlCheck(outcome, tn)
    \/ \E ok \in BOOLEAN : AlGetLastState(ok)
    \/ \E ok \in BOOLEAN : AlUpdateRouteTime(ok)
    \/ \E ok \in BOOLEAN : AlUpdateLastState(ok)
    \/ \E answer \in PostOutcomes : AlDecide(answer)
    \/ AlGotify

SpecAlerts == AlertsInit /\ [][AlNext]_vars

\* A pipeline run and a button press at the same time, every call succeeding.
ConcurrentInit == IgnInit({"monitor"}) /\ AlInit({FALSE}) /\ BotInit /\ PaInit /\ ThInit /\ SvcInit /\ ClsIdle

ConcurrentNext ==
    \/ AlStart(TRUE)
    \/ \E outcome \in {"Heavy", "Normal"} : AlCheck(outcome, 10)
    \/ AlGetLastState(TRUE)
    \/ AlUpdateRouteTime(TRUE)
    \/ AlUpdateLastState(TRUE)
    \/ AlDecide(204)
    \/ AlGotify
    \/ BotStart(TRUE)
    \/ \E outcome \in {"Heavy", "Normal"} : BotAwait(outcome, 10)
    \/ BotUpdateRouteTime(TRUE)

SpecConcurrent == ConcurrentInit /\ [][ConcurrentNext]_vars

\* Calls of process_all_routes, one after the other.
BatchInit == IgnInit({"monitor"}) /\ AlInit({FALSE}) /\ BotInit /\ PaInit /\ ThInit /\ SvcInit /\ ClsIdle

BatchNext ==
    \/ \E ok \in BOOLEAN : PaStart(ok)
    \/ \E outcome \in {"Heavy", "Normal", "none", "raise"}, tn \in TotalNormals :
          PaCheck(outcome, tn)
    \/ \E ok \in BOOLEAN : PaUpdate(ok)

SpecBatch == BatchInit /\ [][BatchNext]_vars

\* One classification of a route, for every history, threshold table and API answer.
ClassifyInit ==
    /\ IgnInit({"monitor"}) /\ AlInit({FALSE}) /\ BotInit /\ PaInit /\ ThInit /\ SvcInit
    /\ \/ ClsInit(Histories, Configs, Legs, {OkResponse})
       \/ ClsInit({<<>>}, {[stored |-> FALSE, value |-> <<>>]}, {IdleLeg}, Responses)

ClassifyNext ==
    \/ ClsBaseline
    \/ ClsResponse
    \/ ClsTotals
    \/ ClsThresholds
    \/ ClsRouteTest
    \/ ClsStep
    \/ ClsVerdict

SpecClassify == ClassifyInit /\ [][ClassifyNext]_vars

\* The threshold table read, replaced, reset and edited in any order.
ThresholdsInit == IgnInit({"monitor"}) /\ AlInit({FALSE}) /\ BotInit /\ PaInit /\ ThInit /\ SvcInit /\ ClsIdle

ThresholdsNext ==
    \/ ThGet
    \/ \E table \in ThresholdTables : ThSet(table)
    \/ ThReset
    \/ \E i \in 1..4, key \in {"factor_total", "factor_step"},
          input \in FactorInputs, numeric \in BOOLEAN : ThEdit(i, key, input, numeric)
    \/ \E i \in 1..4, key \in {"delay_total", "delay_step"},
          input \in DelayInputs, numeric \in BOOLEAN : ThEdit(i, key, input, numeric)

SpecThresholds == ThresholdsInit /\ [][ThresholdsNext]_vars

\* Button presses on routes with short and with full histories.
HistoryInit == IgnInit({"monitor"}) /\ StoreInit({0, HistoryKeep - 1, HistoryKeep})
               /\ RunInit({FALSE}) /\ BotInit /\ PaInit /\ ThInit /\ SvcInit /\ ClsIdle

HistoryNext ==
    \/ \E ok \in BOOLEAN : BotStart(ok)
    \/ \E outcome \in {"Heavy", "Normal", "none", "raise"}, tn \in TotalNormals :
          BotAwait(outcome, tn)
    \/ \E ok \in BOOLEAN : BotUpdateRouteTime(ok)

SpecHistory == HistoryInit /\ [][HistoryNext]_vars


\* ================================================================ claims
\* C1: a "trip started" event fires exactly once per OFF->ON transition of ignition_state:
\* the events fired equal the transitions made (one is pending between the assignment of
\* line 66 and the event), so no message handled while the state is ON fires one, and the
\* first ignition-true message handled after a timeout to OFF fires exactly one more.
C1_TripOncePerTransition ==
    /\ trips = IF cb_pc = "l74" THEN on_transitions - 1 ELSE on_transitions
    /\ on_transitions <= off_transitions + 1

\* C1's case: a second trip has started after a timeout to OFF, and messages were handled
\* while the state was ON without firing.
C1_Witness ==
    /\ trips = 2
    /\ off_transitions >= 1
    /\ cb_pc = "idle"

\* C2: one continuous stream of ignition-true messages with every gap below the timeout
\* starts exactly one pipeline run, however long the pipeline takes.
C2_OneRunPerStream ==
    (variant = "monitor" /\ ~gap_exceeded) => trips <= 1

\* C3: the message callback never runs the pipeline itself: while the pipeline runs,
\* on_message has returned and the loop thread is free to take the next message.
C3_CallbackHandsOff ==
    pipeline = "running" => cb_pc = "idle"

\* C4: while ignition-true messages keep arriving with every gap below the timeout, the
\* state, once ON, stays ON.
C4_StaysOnDuringStream ==
    (variant = "monitor" /\ trips > 0 /\ ~gap_exceeded) => ignition_state

\* C5: when the state is ON and no message has arrived for longer than the timeout, the
\* monitor's poll turns the state OFF (and clears last_msg_time).
C5_SilenceTurnsOff ==
    (mon_pc = "l128" /\ poll_overdue) => (~ignition_state /\ last_msg_time = None)

\* C6: handling a well-formed message whose ignition flag is false changes nothing of the
\* ignition session: every step of on_message on such a message leaves ignition_state,
\* last_msg_time and the timeout bookkeeping as they were.
C6_FalseFlagChangesNothing ==
    [][(cb_msg = "off" /\ cb_pc' # cb_pc) =>
          /\ ignition_state' = ignition_state
          /\ last_msg_time' = last_msg_time
          /\ timeout' = timeout
          /\ message_timestamps' = message_timestamps
          /\ last_frequency_update' = last_frequency_update]_vars

\* C7: no malformed payload makes on_message raise out of the callback (the subscriber
\* loop keeps running), and none changes ignition_state or last_msg_time.
C7_MalformedIsDropped ==
    [][(cb_pc = "idle" /\ inbox # <<>> /\ inbox' = Tail(inbox)
          /\ ParseError(Head(inbox)) # "none") =>
          /\ cb_pc' = "idle"
          /\ ignition_state' = ignition_state
          /\ last_msg_time' = last_msg_time]_vars

\* The run has made its alert decision (or ended before reaching it).
Decided == al_pc \in {"l404", "done"}

C9_NoAlertOnRepeats ==
    (/\ Decided
     /\ Len(route_data) = Cardinality(Routes)
     /\ \A i \in 1..Len(route_data) : route_data[i].status = result[route_data[i].name]
     /\ \A r \in Routes : result[r] \in {"Heavy", "Normal"} /\ result[r] = prev_db[r])
       => ~alerted

\* C10: a run whose every recorded route is Unknown, Error, or Normal without having been
\* stored Heavy posts no Discord alert.
C10_UnknownErrorNeverAlert ==
    (Decided /\ \A i \in 1..Len(route_data) :
                   \/ route_data[i].status \in {"Unknown", "Error"}
                   \/ route_data[i].status = "Normal" /\ prev_db[route_data[i].name] # "Heavy")
       => ~alerted

\* C10's case: a decided run with an Unknown and an Error route and no alert.
C10_Witness ==
    /\ Decided
    /\ ~alerted
    /\ \E i \in 1..Len(route_data) : route_data[i].status = "Unknown"
    /\ \E i \in 1..Len(route_data) : route_data[i].status = "Error"

\* C11: the previous state a run records for a route is the last_state that was stored
\* before this run wrote the route's new state (the read precedes both writes).
C11_PrevReadBeforeWrite ==
    \A i \in 1..Len(route_data) :
       route_data[i].prev_state # Absent =>
          route_data[i].prev_state = prev_db[route_data[i].name]

\* C11's case: the run has overwritten a route's state and still holds the older one.
C11_Witness ==
    /\ Decided
    /\ \E i \in 1..Len(route_data) :
          /\ route_data[i].prev_state = "Heavy"
          /\ routes_db[route_data[i].name].last_state = "Normal"

\* C12: while a pipeline run is between its read of a route's last_state and its writes
\* of the new state, no other run writes that route: at update_route_time the stored
\* state is still the one read, at update_last_state it is the one this run wrote.
C12_ReadWriteNotInterleaved ==
    /\ al_pc = "l333" => routes_db[Head(al_routes)].last_state = al_prev
    /\ al_pc = "l334" => routes_db[Head(al_routes)].last_state = al_traffic.state

\* C18: a route's historical_times never has more than 20 entries, and they are the most
\* recently appended ones in append order (a full history loses its oldest entry).
C18_HistoryKeepsLatest ==
    \A r \in Routes :
       LET h == routes_db[r].historical_times
           a == appended[r]
       IN /\ Len(h) <= 20
          /\ Len(h) = IF Len(a) <= 20 THEN Len(a) ELSE 20
          /\ \A i \in 1..Len(h) : h[i] = a[Len(a) - Len(h) + i]

\* C18's case: two entries appended to a full history evicted the two oldest ones.
C18_Witness ==
    \E r \in Routes :
       /\ Len(appended[r]) = 22
       /\ Len(routes_db[r].historical_times) = 20
       /\ routes_db[r].historical_times[1] = appended[r][3]
       /\ routes_db[r].historical_times[20].timestamp = 2

\* C13: when the classification of a route fails in a batch, the batch still classifies
\* every other route and calls update_route_time for every route it classified.
C13_BatchContinues ==
    (/\ pa_pc \in {"done", "raised"}
     /\ \E r \in Routes : pa_outcome[r] \in {"none", "raise"})
       => \A r \in Routes :
             /\ pa_outcome[r] # "pending"
             /\ pa_outcome[r] \in {"Heavy", "Normal"} => r \in pa_updated

\* The classification has returned its verdict.
Classified == cls_pc = "done"

\* the route-level test of the verdict at hand, from the totals and the bucket's values
RouteLevelTrips ==
    \/ total_delay >= thresholds.delay_total
    \/ /\ effective_normal[1] > 0
       /\ total_live * effective_normal[2] * thresholds.factor_total[2]
             >= effective_normal[1] * thresholds.factor_total[1]

\* the segment-level test of the i-th step of the leg
SegmentTrips(i) ==
    LET step == leg.steps[i]
    IN /\ "duration_in_traffic" \in DOMAIN step
       /\ step.duration >= 60
       /\ LET normal == step.duration \div 60
              live == step.duration_in_traffic \div 60
          IN \/ live - normal >= thresholds.delay_step
             \/ live * thresholds.factor_step[2] >= normal * thresholds.factor_step[1]

C15_HeavyIffSomeTestTrips ==
    Classified =>
      /\ cls_state = IF RouteLevelTrips \/ \E i \in 1..Len(leg.steps) : SegmentTrips(i)
                     THEN "Heavy" ELSE "Normal"
      /\ heavy_segments # <<>> => cls_state = "Heavy"

\* C15's case: Heavy because of a segment's multiplier alone.
C15_Witness ==
    /\ Classified
    /\ cls_state = "Heavy"
    /\ ~RouteLevelTrips
    /\ \E j \in 1..Len(heavy_segments) : heavy_segments[j].delay < thresholds.delay_step

\* C16: a step whose free-flow duration is less than a minute is in no heavy segment and
\* does not make the route Heavy, whatever its live duration.
C16_ShortStepsAreSkipped ==
    /\ \A j \in 1..Len(heavy_segments) : heavy_segments[j].normal # 0
    /\ Len(heavy_segments) <=
          Cardinality({i \in 1..Len(leg.steps) : leg.steps[i].duration >= 60})
    /\ (/\ Classified
        /\ ~RouteLevelTrips
        /\ \A i \in 1..Len(leg.steps) : leg.steps[i].duration < 60)
          => cls_state = "Normal"

\* C16's case: a step of under a minute with minutes of live delay, and a Normal verdict.
C16_Witness ==
    /\ Classified
    /\ cls_state = "Normal"
    /\ \E i \in 1..Len(leg.steps) :
          /\ leg.steps[i].duration < 60
          /\ "duration_in_traffic" \in DOMAIN leg.steps[i]
          /\ leg.steps[i].duration_in_traffic \div 60 >= thresholds.delay_step

\* The totals and effective_normal of the classification have been computed.
AfterTotals == cls_pc \in {"l401", "l403", "l411", "l431", "done"}

\* The thresholds of the classification have been looked up.
AfterThresholds == cls_pc \in {"l403", "l411", "l431", "done"}

\* C17: effective_normal is the baseline whenever there is one, a baseline of 0
\* included, and total_normal only when there is none.
C17_EffectiveNormalIsBaseline ==
    AfterTotals =>
       effective_normal = IF baseline # NoBaseline THEN baseline ELSE <<total_normal, 1>>

RECURSIVE SumOfNormalTimes(_)
SumOfNormalTimes(h) ==
    IF h = <<>> THEN 0
    ELSE (IF "normal_time" \in DOMAIN Head(h) THEN Head(h).normal_time ELSE 0)
         + SumOfNormalTimes(Tail(h))

\* C19: the baseline is None for an empty history and for one without any normal_time,
\* and otherwise the sum of the normal_time values present divided by their number.
C19_BaselineIsMean ==
    cls_pc # "l300" =>
       LET present == {i \in 1..Len(historical_data) :
                          "normal_time" \in DOMAIN historical_data[i]}
       IN IF present = {}
          THEN baseline = NoBaseline
          ELSE /\ baseline # NoBaseline
               /\ baseline[1] * Cardinality(present)
                     = baseline[2] * SumOfNormalTimes(historical_data)

\* C19's case: the mean of a history in which one entry has no normal_time.
C19_Witness ==
    /\ cls_pc # "l300"
    /\ baseline # NoBaseline
    /\ baseline[1] > 0
    /\ \E i \in 1..Len(historical_data) : "normal_time" \notin DOMAIN historical_data[i]

\* C20: with a non-empty bucket list none of whose buckets contains the distance, the
\* thresholds in use are the values of the last configured bucket.
C20_FallbackIsLastBucket ==
    (/\ AfterThresholds
     /\ GetConfig(config) # <<>>
     /\ \A i \in 1..Len(GetConfig(config)) :
           \/ leg.distance < GetConfig(config)[i].min_km * 1000
           \/ leg.distance > GetConfig(config)[i].max_km * 1000)
       => /\ thresholds.factor_total = GetConfig(config)[Len(GetConfig(config))].factor_total
          /\ thresholds.factor_step = GetConfig(config)[Len(GetConfig(config))].factor_step
          /\ thresholds.delay_total = GetConfig(config)[Len(GetConfig(config))].delay_total
          /\ thresholds.delay_step = GetConfig(config)[Len(GetConfig(config))].delay_step

\* C20's case: a distance in the gap of the user's table gets the last bucket's values,
\* which differ from the constants of the last resort.
C20_Witness ==
    /\ cls_pc = "l403"
    /\ GetConfig(config) = CustomThresholds
    /\ \A i \in 1..Len(GetConfig(config)) :
          \/ leg.distance < GetConfig(config)[i].min_km * 1000
          \/ leg.distance > GetConfig(config)[i].max_km * 1000
    /\ thresholds = Values(CustomThresholds[2])
    /\ thresholds # HardcodedThresholds

\* C21: when the stored bucket list is empty (no bucket is configured at all), the lookup
\* returns the constants factor_total 2.0, factor_step 3.0, delay_total 15, delay_step 5.
C21_EmptyListGivesHardcoded ==
    [][(cls_pc = "l401" /\ cls_pc' = "l403" /\ GetConfig(config) = <<>>)
          => thresholds' = [factor_total |-> <<2, 1>>, factor_step |-> <<3, 1>>,
                            delay_total |-> 15, delay_step |-> 5]]_vars

\* the i-th stored bucket contains the distance of the leg
Contains(i) ==
    /\ GetConfig(config)[i].min_km * 1000 <= leg.distance
    /\ leg.distance <= GetConfig(config)[i].max_km * 1000

\* C22: the lookup returns the first bucket in stored order that contains the distance,
\* so a distance on a shared boundary gets the earlier bucket's values.
C22_FirstMatchingBucketWins ==
    AfterThresholds =>
       \A i \in 1..Len(GetConfig(config)) :
          (Contains(i) /\ \A j \in 1..(i - 1) : ~Contains(j))
             => thresholds = Values(GetConfig(config)[i])

\* C22's case: 2 km with the default table, where buckets 0-2 and 2-5 both match.
C22_Witness ==
    /\ cls_pc = "l403"
    /\ leg.distance = 2000
    /\ Contains(1) /\ Contains(2)
    /\ thresholds.delay_total = 5
    /\ GetConfig(config)[2].delay_total = 10

C24_StoredBucketsAreSane ==
    \A i \in 1..Len(GetConfig(config)) :
       LET b == GetConfig(config)[i]
       IN /\ b.factor_total[1] >= b.factor_total[2]
          /\ b.factor_step[1] >= b.factor_step[2]
          /\ b.delay_total >= 0
          /\ b.delay_step >= 0

RecentTimestamps(t) ==
    SelectSeq(message_timestamps, LAMBDA stamp : t - stamp <= FrequencyUpdateInterval)

\* twice the mean gap between the recent messages: the gaps add up to last - first
TwiceAverageInterval(t) ==
    LET recent == RecentTimestamps(t)
    IN Rat(2 * (recent[Len(recent)] - recent[1]), Len(recent) - 1)

AtLeastMinimum(q) == q[1] >= MinTimeout * q[2]

C26_WitnessAboveFloor ==
    /\ timeout # <<InitialTimeout, 1>>
    /\ timeout # <<MinTimeout, 1>>

\* C27: while no message has arrived the monitor stays in its polling loop with the
\* state OFF, and in no interleaving does line 119 subtract a null last_msg_time.
C27_NoNullSubtraction ==
    /\ mon_pc # "crashed"
    /\ mon_pc = "l119" => last_msg_time # None
    /\ sent = 0 => (~ignition_state /\ mon_pc \in {"l118", "l128", "sleep"})

\* C27's case: no message up to the horizon, and the monitor polling once more.
C27_Witness == sent = 0 /\ now = MaxTime /\ mon_pc = "l118" /\ ~ignition_state

\* C27's other case: line 119 runs after the monitor itself has cleared last_msg_time once.
C27_WitnessAfterClear ==
    mon_pc = "l119" /\ off_transitions > 0 /\ last_msg_time # None

\* C28: after a shutdown signal the monitor loop observes the shutdown and stops
\* polling: a monitor asleep when the flag is set does not start another iteration.
C28_NoPollAfterShutdown ==
    [][(force_shutdown /\ mon_pc = "sleep") => mon_pc' # "l118"]_vars

\* C29: every dispatcher logs success for exactly the statuses 200, 201 and 204, logs a
\* failure for every other status, and lets no exception reach its caller.
C29_SameSuccessStatuses ==
    nt_dispatcher # "none" =>
       /\ nt_log = "success" <=> nt_status \in {200, 201, 204}
       /\ nt_log = "failure" <=> nt_status \notin {200, 201, 204}
       /\ ~nt_raised

\* C30: once a balance row exists, get_current_balance returns that row and
\* get_balance_status returns a status with current_balance and usable_balance and
\* without an error key.
C30_StatusAfterInitialize ==
    (bal_asked /\ claude_balance # <<>>) =>
       /\ balance_info = <<claude_balance[1]>>
       /\ "error" \notin DOMAIN bal_status
       /\ {"current_balance", "usable_balance"} \subseteq DOMAIN bal_status

\* C31: after any sequence of log_usage and topup_balance operations the current balance
\* is the starting balance plus the non-initial adjustments minus the successful usage
\* costs, and the usable balance is that balance times (100 - buffer_percent)/100.
C31_BalanceIsLedger ==
    claude_balance # <<>> =>
       LET row == claude_balance[1]
       IN /\ row.current_calculated_balance =
                row.starting_balance
                   + SumSeq(Adjustments(NonInitial(claude_topups)))
                   - SumSeq(Costs(Successful(claude_usage)))
          /\ row.usable_balance = Usable(row.current_calculated_balance)

\* C32: can_make_request returns true exactly when a balance row exists with usable
\* balance above 0 and not below the disable threshold, and generate_claude_summary does
\* not post to the Claude API when can_make_request returned false.
C32_RequestsFollowBalance ==
    /\ can_make # "none" =>
          (can_make = "True" <=>
              /\ claude_balance # <<>>
              /\ claude_balance[1].usable_balance > 0
              /\ claude_balance[1].usable_balance >= DisableThreshold)
    /\ api_called => can_make # "False"
    /\ can_make = "False" => summary \in {"none", "simple"}

\* C33: when shutdown is forced start_ignition_monitor returns.
C33_ReturnsOnShutdown == force_shutdown ~> (im_pc = "returned")

\* C33's other parts, which hold: at most 1 + 10 starts, and each start but the first
\* after a crash.
C33_StartsBounded ==
    /\ im_starts <= 1 + MaxRestarts
    /\ im_starts <= restart_count + 1
    /\ restart_count <= MaxRestarts

\* C34: after 5 or more failed runs in a row the wait before the next attempt is
\* min(300, 30 * 2^(failures - 5)) seconds.
C34_BackoffAfterFiveFailures ==
    (inf_pc = "l116" /\ failed_runs >= MaxConsecutiveFailures) =>
       wait = Min(MaxBackoff, ShortDelay * Pow2(failed_runs - MaxConsecutiveFailures))

\* C35: after force_permanent_shutdown the bot runners eventually return.
C35_RunnersReturnAfterShutdown ==
    force_permanent_shutdown ~> (rb_pc = "idle" /\ inf_pc = "returned")

\* C38: _force_permanent_shutdown implies _shutting_down in every reachable state.
C38_PermanentImpliesShuttingDown == force_permanent_shutdown => shutting_down

\* C36: in every reachable state of every interleaving of the message callback and the
\* monitor loop, state ON implies that last_msg_time is not null (so a later silence can
\* still turn the state OFF).
C36_OnImpliesLastMsgTime == ignition_state => last_msg_time # None

\* ------------------------------------------------ async_add_route and its retries
\* the messages of the RuntimeErrors the call can meet: run_in_thread lines 242 and 246,
\* get_route_map lines 564, 567 and 583
RuntimeErrors == {"Bot is shutting down", "Event loop is closed", "Directions API failed",
                  "Directions API error", "Static Maps API failed"}

\* with_error_recovery line 281: "shutdown" in str(e).lower() or "closed" in str(e).lower();
\* of the messages above only "Event loop is closed" contains one of the two words
\* ("Bot is shutting down" contains "shutting down", not "shutdown")
MentionsShutdownOrClosed(msg) == msg \in {"Event loop is closed"}

\* what get_route_map meets when it has to build the image
MapAnswers == {"OK", "no api key", "Directions API failed", "Directions API error",
               "Static Maps API failed"}

\* with_error_recovery lines 280-298: a RuntimeError is retried only when its message
\* mentions shutdown or closed, any other exception always; after attempt max_retries,
\* and for the other RuntimeErrors at once, the exception reaches the caller
ArExcept(type, msg) ==
    LET retried == /\ ar_attempt < MaxRetries
                   /\ type = "RuntimeError" => MentionsShutdownOrClosed(msg)
    IN /\ ar_pc' = IF retried THEN "l286" ELSE "idle"
       /\ ar_outcome' = IF retried THEN ar_outcome ELSE "failed"

ar_frame == <<sd_vars, nt_vars, bal_vars, rn_vars, urt_vars, ign_vars, al_vars, bot_vars, pa_vars,
              cls_vars, th_vars>>

\* AddRouteModal.on_submit line 567: map_path = await async_add_route(route_name, ...)
AsyncAddRoute(name) ==
    /\ ar_pc = "idle"
    /\ ar_calls < MaxAddCalls
    /\ ar_calls' = ar_calls + 1
    /\ ar_name' = name
    /\ ar_attempt' = 0
    /\ ar_outcome' = "none"
    /\ ar_existed' = (name \in route_names)
    /\ ar_pc' = "l278"
    /\ UNCHANGED <<route_names, map_files, ar_frame>>

\* with_error_recovery line 279 calling run_in_thread, lines 241-252
ArRunInThread(loop_closed) ==
    /\ ar_pc = "l278"
    /\ IF shutting_down
          THEN ArExcept("RuntimeError", "Bot is shutting down")
          ELSE IF loop_closed
                  THEN ArExcept("RuntimeError", "Event loop is closed")
                  ELSE ar_pc' = "l421" /\ UNCHANGED ar_outcome
    /\ UNCHANGED <<route_names, map_files, ar_name, ar_attempt, ar_existed, ar_calls,
                   ar_frame>>

\* register_route_and_generate_map lines 420-423 calling add_route under with_db: the
\* INSERT violates UNIQUE(name) or the database fails, and the transaction is rolled
\* back; or the row is inserted and committed
ArAddRoute(db_up) ==
    /\ ar_pc = "l421"
    /\ IF ~db_up
          THEN ArExcept("OperationalError", "") /\ UNCHANGED route_names
          ELSE IF ar_name \in route_names
                  THEN ArExcept("IntegrityError", "") /\ UNCHANGED route_names
                  ELSE /\ route_names' = route_names \cup {ar_name}
                       /\ ar_pc' = "l426"
                       /\ UNCHANGED ar_outcome
    /\ UNCHANGED <<map_files, ar_name, ar_attempt, ar_existed, ar_calls, ar_frame>>

\* register_route_and_generate_map lines 426-427 calling get_route_map
ArGetRouteMap(answer) ==
    /\ ar_pc = "l426"
    /\ IF ar_name \in map_files \/ answer = "OK"
          THEN /\ map_files' = map_files \cup {ar_name}
               /\ ar_pc' = "idle"
               /\ ar_outcome' = "ok"
          ELSE /\ IF answer = "no api key"
                     THEN ArExcept("ValueError", "")
                     ELSE ArExcept("RuntimeError", answer)
               /\ UNCHANGED map_files
    /\ UNCHANGED <<route_names, ar_name, ar_attempt, ar_existed, ar_calls, ar_frame>>

\* with_error_recovery lines 284-285 and 294-295: sleep(1), continue
ArWake ==
    /\ ar_pc = "l286"
    /\ ar_pc' = "l278"
    /\ ar_attempt' = ar_attempt + 1
    /\ UNCHANGED <<route_names, map_files, ar_name, ar_outcome, ar_existed, ar_calls,
                   ar_frame>>

\* delete_route (traffic_utils.py) from the bot's menu, between two calls
DeleteRoute(name) ==
    /\ ar_pc = "idle"
    /\ name \in route_names
    /\ route_names' = route_names \ {name}
    /\ UNCHANGED <<map_files, ar_pc, ar_name, ar_attempt, ar_outcome, ar_existed, ar_calls,
                   ar_frame>>

AddRouteNext ==
    \/ \E name \in RouteNames : AsyncAddRoute(name)
    \/ \E loop_closed \in BOOLEAN : ArRunInThread(loop_closed)
    \/ \E db_up \in BOOLEAN : ArAddRoute(db_up)
    \/ \E answer \in MapAnswers : ArGetRouteMap(answer)
    \/ ArWake
    \/ \E name \in RouteNames : DeleteRoute(name)
    \/ Signal

SpecAddRoute == AdaptiveInit /\ [][AddRouteNext]_vars

\* C39: when async_add_route (with its retries) reports failure, the store holds no route
\* of that name (unless one was stored before the call began).
C39_FailedAddLeavesNoRoute ==
    (ar_outcome = "failed" /\ ~ar_existed) => ar_name \notin route_names

\* ------------------------------ update_route_time, statement by statement
\* with_db opens one connection per call and commits when the function returns, so each
\* call is its own transaction (READ COMMITTED); the SELECT of line 160 takes no lock.
urt_frame == <<sd_vars, nt_vars, bal_vars, rn_vars, ar_vars, ign_vars, pa_vars, cls_vars,
               th_vars>>

\* update_route_time lines 160-162, called from post_traffic_alerts_async line 333:
\* SELECT historical_times; historical = json.loads(...)
AlSelectHistory ==
    /\ al_pc = "l333"
    /\ historical["al"] = <<>>
    /\ historical' = [historical EXCEPT !["al"] =
                         <<routes_db[Head(al_routes)].historical_times>>]
    /\ UNCHANGED <<al_vars, bot_vars, urt_frame>>

\* update_route_time lines 164-175 and with_db line 62: append to the history that was
\* read, UPDATE the three columns, commit
AlStoreRouteTime ==
    /\ al_pc = "l333"
    /\ historical["al"] # <<>>
    /\ LET r == Head(al_routes)
       IN /\ routes_db' = [routes_db EXCEPT ![r] =
                             UpdateRouteTime([historical_times |-> historical["al"][1]],
                                             al_run, al_traffic.total_normal,
                                             al_traffic.state)]
          /\ appended' = [appended EXCEPT ![r] =
                            Append(@, HistoryEntry(al_run, al_traffic.total_normal,
                                                   al_traffic.state))]
    /\ historical' = [historical EXCEPT !["al"] = <<>>]
    /\ al_pc' = "l334"
    /\ UNCHANGED <<al_routes, al_traffic, al_prev, route_data, gotify_configured, al_run,
                   discord_alert_needed, alerted, gotify_sent, prev_db, result,
                   failed_before>>
    /\ UNCHANGED <<bot_vars, urt_frame>>

\* the same SELECT, called from CheckAllRoutesButton.callback line 1160
BotSelectHistory ==
    /\ bot_pc = "l1160"
    /\ historical["bot"] = <<>>
    /\ historical' = [historical EXCEPT !["bot"] =
                         <<routes_db[Head(bot_routes)].historical_times>>]
    /\ UNCHANGED <<al_vars, bot_vars, urt_frame>>

\* the same UPDATE and commit, called from CheckAllRoutesButton.callback line 1160
BotStoreRouteTime ==
    /\ bot_pc = "l1160"
    /\ historical["bot"] # <<>>
    /\ LET r == Head(bot_routes)
       IN /\ routes_db' = [routes_db EXCEPT ![r] =
                             UpdateRouteTime([historical_times |-> historical["bot"][1]],
                                             bot_run, bot_traffic.total_normal,
                                             bot_traffic.state)]
          /\ appended' = [appended EXCEPT ![r] =
                            Append(@, HistoryEntry(bot_run, bot_traffic.total_normal,
                                                   bot_traffic.state))]
    /\ historical' = [historical EXCEPT !["bot"] = <<>>]
    /\ bot_pc' = BotAfterRoute
    /\ bot_routes' = Tail(bot_routes)
    /\ bot_traffic' = NullState
    /\ UNCHANGED <<bot_run, bot_results, al_run_vars, urt_frame>>

\* A pipeline run and a button press at the same time, every call succeeding, the
\* statements of update_route_time interleaved.
RaceNext ==
    \/ AlStart(TRUE)
    \/ \E outcome \in {"Heavy", "Normal"} : AlCheck(outcome, 10)
    \/ AlGetLastState(TRUE)
    \/ AlSelectHistory
    \/ AlStoreRouteTime
    \/ AlUpdateLastState(TRUE)
    \/ AlDecide(204)
    \/ AlGotify
    \/ BotStart(TRUE)
    \/ \E outcome \in {"Heavy", "Normal"} : BotAwait(outcome, 20)
    \/ BotSelectHistory
    \/ BotStoreRouteTime

SpecRace == ConcurrentInit /\ [][RaceNext]_vars

\* no call of the pipeline or of the button is in progress
Quiescent == al_pc \in {"idle", "done"} /\ bot_pc \in {"idle", "done"}

\* C37: when two calls of update_route_time for the same route run at the same time,
\* both history entries end up in historical_times (no update is lost), and once the
\* calls are over last_state, last_normal_time and the newest history entry come from
\* the same call.
C37_ConcurrentUpdatesKeepBoth ==
    \A r \in Routes :
       LET row == routes_db[r]
           h == row.historical_times
       IN /\ h = LastEntries(appended[r])
          /\ (Quiescent /\ h # <<>>) =>
                /\ row.last_state = h[Len(h)].state
                /\ row.last_normal_time = h[Len(h)].normal_time

\* ------------------------------------- recovery after a failed check
\* the row of a route that an earlier run of the pipeline found Heavy
HeavyRoute == UpdateRouteTime(NewRoute, 0, 10, "Heavy")

\* The routes table as earlier runs left it: each route new, or found Heavy.
RecoveryInit ==
    /\ IgnInit({"monitor"})
    /\ routes_db \in [Routes -> {NewRoute, HeavyRoute}]
    /\ appended = [r \in Routes |-> routes_db[r].historical_times]
    /\ RunInit({FALSE}) /\ BotInit /\ PaInit /\ ThInit /\ SvcInit /\ ClsIdle

\* Runs of the alert pipeline, one after the other, on such a table: every check ends
\* in a verdict, in no data or in an exception; the database answers, except that
\* update_last_state can fail.
RecoveryNext ==
    \/ AlStart(TRUE)
    \/ \E outcome \in {"Heavy", "Normal", "none", "raise"} : AlCheck(outcome, 10)
    \/ AlGetLastState(TRUE)
    \/ AlUpdateRouteTime(TRUE)
    \/ \E ok \in BOOLEAN : AlUpdateLastState(ok)
    \/ \E answer \in {0, 204} : AlDecide(answer)
    \/ AlGotify

SpecRecovery == RecoveryInit /\ [][RecoveryNext]_vars

\* the run's check of route r failed (raise) or returned no data (none)
CheckFailed(res, r) == res[r] \in {"none", "raise"}

\* the history entries of route r that were stored before the current run
EarlierEntries(r) == SelectSeq(appended[r], LAMBDA e : e.timestamp < al_run)

\* the latest verdict stored for route r before the current run was Heavy
WasHeavy(r) ==
    LET h == EarlierEntries(r) IN h # <<>> /\ h[Len(h)].state = "Heavy"

\* the current run recorded route r as Normal
RecordedNormal(r) ==
    \E i \in 1..Len(route_data) : route_data[i].name = r /\ route_data[i].status = "Normal"

\* C40: no step of a run in which the check of a route failed or returned no data changes
\* the route's last_state, last_normal_time or historical_times; hence a route found
\* Heavy, then Error/Unknown, then Normal still gets the recovery alert: a run that
\* records Normal for a route whose latest stored verdict is Heavy decides to alert.
C40_FailedCheckKeepsRow ==
    /\ [][\A r \in Routes : CheckFailed(result', r) => routes_db'[r] = routes_db[r]]_vars
    /\ [](\A r \in Routes :
             (Decided /\ al_pc # "idle" /\ RecordedNormal(r) /\ WasHeavy(r))
                => (discord_alert_needed /\ alerted))

\* C40's case: the second run after a Heavy verdict records Normal and alerts for the
\* recovery alone; the check of the run between them failed or returned no data.
C40_Witness ==
    \E r \in Routes :
       /\ Decided
       /\ al_run = 2
       /\ appended[r] = <<HistoryEntry(0, 10, "Heavy"), HistoryEntry(2, 10, "Normal")>>
       /\ routes_db[r].last_state = "Normal"
       /\ failed_before[r]
       /\ RecordedNormal(r)
       /\ \A i \in 1..Len(route_data) : route_data[i].status # "Heavy"
       /\ alerted

====
